---- MODULE Spec2Model ----
(***************************************************************************)
(* A model of the tgocr bot: the per-chat job registry and the archive /   *)
(* image OCR workers (src/src/handlers.py, src/src/ocr.py), the per-chat   *)
(* settings map (src/src/handlers.py) and the credential store             *)
(* (src/src/users.py, src/src/user_handlers.py).                           *)
(*                                                                         *)
(* Python strings that the code inspects (paths, file names) are sequences *)
(* of character codes, so that lower(), endswith(), basename() and the     *)
(* ordering used by sorted() are computed as Python computes them.         *)
(* Python dicts are functions whose DOMAIN is the set of keys present; the *)
(* credential dict "keys" is a sequence of <name, key> entries because the *)
(* code depends on its insertion order (next(iter(...))).                  *)
(*                                                                         *)
(* asyncio runs one coroutine at a time and switches only at an await that *)
(* really suspends.  Every action below is the code between two such       *)
(* suspension points; `running` names the job that holds the event loop    *)
(* when a step of the page loop ends without suspending.                   *)
(***************************************************************************)
EXTENDS Integers, Sequences, FiniteSets, TLC

VARIABLES
    active_jobs,    \* handlers.active_jobs: chat id -> [cancel |-> BOOLEAN]
    user_settings,  \* handlers.user_settings: chat id -> dict of settings
    jobs,           \* the worker / image_worker tasks, one record per task
    running,        \* the job that holds the event loop (0: loop is free)
    dicts,          \* the two dict objects of users.py: d0 (line 10), d1 (_load)
    _user_data,     \* users._user_data: the object the global name is bound to
    DATA_FILE,      \* the persisted credential document
    reply,          \* the reply a command handler sent in the last step
    nops,           \* number of credential handler calls so far
    _client_cache,  \* translate._client_cache: the api keys that have a client
    txt,            \* the .txt upload that handle_file is working on
    model_cache,    \* translate.model_cache: chat id -> [models, timestamp]
    now,            \* time.time(), in seconds since the start
    fetched,        \* chat id -> the time of the chat's last model fetch
    user_data,      \* context.user_data of each chat's user: the pending names
    conversations,  \* the style ConversationHandler: chat id -> its state
    handled_by      \* the callback that handled the last update

vars == <<active_jobs, user_settings, jobs, running,
          dicts, _user_data, DATA_FILE, reply, nops, _client_cache, txt,
          model_cache, now, fetched, user_data, conversations, handled_by>>

jobVars  == <<active_jobs, user_settings, jobs, running>>
credVars == <<dicts, _user_data, DATA_FILE, nops>>
mcVars   == <<model_cache, now, fetched>>
uiVars   == <<user_data, conversations, handled_by>>
trVars   == <<_client_cache, txt, mcVars, uiVars>>

----------------------------------------------------------------------------
(* Bounds of the model *)

MaxPages == 3     \* images in an uploaded archive: 0..MaxPages
MaxOps   == 4     \* credential handler calls in one behaviour
MaxClock == 900   \* the clock stops here

\* the chats that use the credential menu
Chats == {1, 2}

\* the chats that upload and give commands while tasks run
JobChats == {1}

\* the tasks of one behaviour
JobIds == {1, 2}

----------------------------------------------------------------------------
(* Python strings as sequences of character codes *)

\* variant: names compared as they were typed
unchanged_case(s) == s

\* str.lower() on ASCII: 'A'..'Z' (65..90) become 'a'..'z'
Lower(s) == [i \in DOMAIN s |-> IF s[i] \in 65..90 THEN s[i] + 32 ELSE s[i]]

\* str.endswith(suf)
EndsWith(s, suf) ==
    /\ Len(s) >= Len(suf)
    /\ SubSeq(s, Len(s) - Len(suf) + 1, Len(s)) = suf

\* variant: the ordering turned round, b < a
later_first(a, b) ==
    \E i \in 1..(Len(a)) :
        /\ i <= Len(b) + 1
        /\ \A k \in 1..(i - 1) : a[k] = b[k]
        /\ (i = Len(b) + 1 \/ a[i] > b[i])

\* Python's str ordering a < b: lexicographic by code point
StrLess(a, b) ==
    \E i \in 1..(Len(b)) :
        /\ i <= Len(a) + 1
        /\ \A k \in 1..(i - 1) : a[k] = b[k]
        /\ (i = Len(a) + 1 \/ a[i] < b[i])

\* os.path.basename(p): what follows the last '/' (47)
basename(p) ==
    LET slashes == {i \in DOMAIN p : p[i] = 47}
        last == IF slashes = {} THEN 0
                ELSE CHOOSE i \in slashes : \A k \in slashes : k <= i
    IN  SubSeq(p, last + 1, Len(p))

----------------------------------------------------------------------------
(* The uploaded archive: files of the extracted tree, relative to extract_dir *)

\* "b.png", "A.jpg", "a/z.PNG", "c.gif": the images an upload may contain
ImageList ==
    << <<98, 46, 112, 110, 103>>,
       <<65, 46, 106, 112, 103>>,
       <<97, 47, 122, 46, 80, 78, 71>>,
       <<99, 46, 103, 105, 102>> >>

\* "n.txt", "p.jpg.bak": files of every upload that are no images
OtherFiles ==
    { <<110, 46, 116, 120, 116>>,
      <<112, 46, 106, 112, 103, 46, 98, 97, 107>> }

\* the files of an archive with n images
ArchiveFiles(n) ==
    {ImageList[i] : i \in 1..(IF n < Len(ImageList) THEN n ELSE Len(ImageList))}
        \cup OtherFiles

\* the document name of an archive upload: "M.CBZ"
ArchiveNames == { <<77, 46, 67, 66, 90>> }

\* what may happen inside a backend for a page: it reads text, or it fails
\* (the image cannot be opened, the request fails); a page on which the
\* local backend reads nothing comes back as a failed one does, as ""
OcrOutcomes == {"text", "error"}

\* ocr.py:88-95  ocr_image_local: the stripped text, or "" when the call
\* raised
ocr_image_local(outcome) == IF outcome = "text" THEN "text" ELSE ""

\* ocr.py:20-82  ocr_image_online: the text, or a placeholder string for
\* every failure (credentials, status code, error message, exception) and
\* for an empty result
ocr_image_online(outcome) ==
    IF outcome = "text" THEN "text"
    ELSE IF outcome = "blank" THEN "no_text_detected" ELSE "online_ocr_error"

\* what they may return for a photo; TextLen gives len(text)
ImageTexts == {"", "t3500", "t3501"}

TextLen(t) ==
    CASE t = ""      -> 0
      [] t = "t3500" -> 3500
      [] t = "t3501" -> 3501
      [] OTHER       -> 4

----------------------------------------------------------------------------
(* Pure helpers of ocr.py and handlers.py *)

\* ocr.py:137  the extension allowlist of the scan
IMAGE_EXTS ==
    { <<46, 106, 112, 103>>,          \* .jpg
      <<46, 106, 112, 101, 103>>,     \* .jpeg
      <<46, 112, 110, 103>>,          \* .png
      <<46, 98, 109, 112>>,           \* .bmp
      <<46, 116, 105, 102, 102>>,     \* .tiff
      <<46, 119, 101, 98, 112>>,      \* .webp
      <<46, 103, 105, 102>> }         \* .gif

\* ocr.py:137  f.lower().endswith((...))
is_image(f) == \E e \in IMAGE_EXTS : EndsWith(Lower(f), e)

\* variant: a scan that takes every file of the tree
scan_all_files(files) == files

\* ocr.py:134-138  the os.walk scan: every file with an allowlisted extension
scan_images(files) == {f \in files : is_image(f)}

\* ocr.py:145  sorted(image_files): ascending by the full path string
RECURSIVE sorted(_)
sorted(S) ==
    IF S = {} THEN << >>
    ELSE LET m == CHOOSE x \in S : \A y \in S \ {x} : StrLess(x, y)
         IN  <<m>> \o sorted(S \ {m})

\* handlers.py:249  name.endswith(".txt")
is_txt_name(name) == EndsWith(name, <<46, 116, 120, 116>>)

\* handlers.py:274  shutil.rmtree(temp_dir) after the "Unsupported file" reply
reject_cleanup == "removed"

\* handlers.py:238  name.endswith((".zip", ".7z", ".cbz")) on the lowered name
is_archive_name(name) ==
    \/ EndsWith(name, <<46, 122, 105, 112>>)
    \/ EndsWith(name, <<46, 55, 122>>)
    \/ EndsWith(name, <<46, 99, 98, 122>>)

\* ocr.py:121-129  the formats process_archive can unpack
can_unpack(path) ==
    \/ EndsWith(path, <<46, 122, 105, 112>>)
    \/ EndsWith(path, <<46, 99, 98, 122>>)
    \/ EndsWith(path, <<46, 55, 122>>)

\* the strings "local" and "online"
STR_LOCAL  == <<108, 111, 99, 97, 108>>
STR_ONLINE == <<111, 110, 108, 105, 110, 101>>

\* a Python dict with no key
EmptyDict == [k \in {} |-> << >>]

\* handlers.py:236  user_settings.get(chat_id, {}).get("ocr_mode", "local")
stored_ocr_mode(us, c) ==
    IF c \in DOMAIN us /\ "ocr_mode" \in DOMAIN us[c] THEN us[c]["ocr_mode"]
    ELSE STR_LOCAL

\* ocr.py:116, ocr.py:179  mode = ocr_mode_map.get(chat_id, "local"), where
\* ocr_mode_map is handlers.user_settings: the value is the chat's whole
\* settings dict when the chat has one, and the string "local" otherwise
get_mode(us, c) ==
    IF c \in DOMAIN us THEN [is_str |-> FALSE, str |-> << >>, dict |-> us[c]]
    ELSE [is_str |-> TRUE, str |-> STR_LOCAL, dict |-> EmptyDict]

\* ocr.py:118, ocr.py:180  mode.upper() exists for a str only
has_upper(mode) == mode.is_str

\* ocr.py:102-106  ocr_image: the backend a mode value selects
ocr_backend(mode) ==
    IF mode.is_str /\ mode.str = STR_ONLINE THEN "online" ELSE "local"

\* ocr.py:102-106  ocr_image: what the call returns; it raises in no case
ocr_image(mode, outcome) ==
    IF ocr_backend(mode) = "online" THEN ocr_image_online(outcome)
    ELSE ocr_image_local(outcome)

\* variant: a page loop that reads the settings map again for every page
page_mode_reread(jb, us) == get_mode(us, jb.chat)

\* ocr.py:150  ocr_image(img_path, mode): the mode of a page's OCR call is
\* the task's local variable, whatever the settings map holds by then
page_mode(jb, us) == jb.mode

\* variant: a task that polls a flag no command can set
cancel_unreachable(aj, c) == FALSE

\* ocr.py:146  chat_id in active_jobs and active_jobs[chat_id].get("cancel")
cancel_requested(aj, c) == c \in DOMAIN aj /\ aj[c].cancel

\* ocr.py:153  the first two pages are also reported at once
wants_progress(idx) == idx <= 2

\* ocr.py:184
INLINE_LIMIT == 3500

\* ocr.py:184  len(text) > 3500: deliver as a document
as_document(text) == TextLen(text) > INLINE_LIMIT

\* handlers.py:239, 328  active_jobs[chat_id] = {"cancel": False}
register(aj, c) ==
    [x \in DOMAIN aj \cup {c} |-> IF x = c THEN [cancel |-> FALSE] ELSE aj[x]]

\* variant: a cleanup that empties the registry
pop_every_job(aj, c) == [x \in {} |-> aj[x]]

\* handlers.py:315, 346  active_jobs.pop(chat_id, None)
pop_job(aj, c) == [x \in DOMAIN aj \ {c} |-> aj[x]]

\* handlers.py:302  active_jobs[chat_id]["cancel"] = True
set_cancel(aj, c) == [aj EXCEPT ![c] = [cancel |-> TRUE]]

\* variant: a worker whose except branch ends without the finally block
finally_from_return_only == {"return"}

\* handlers.py:308-315, 339-346  the positions of a task from which its
\* finally block runs: a return of the processing function, or the except
\* branch after its reply
finally_from == {"return", "except"}

----------------------------------------------------------------------------
(* The job tasks *)

\* a reply of a command handler: what it says, and the value it names
Reply(kind, arg) == [kind |-> kind, arg |-> arg]

\* the step sent no reply of a command handler
NoReply == Reply("none", << >>)

\* a message a job sends to its chat
Msg(kind, name, idx, text, doc) ==
    [kind |-> kind, name |-> name, idx |-> idx, text |-> text, doc |-> doc]

\* the value of `mode` before a task has read it
NoMode == [is_str |-> TRUE, str |-> << >>, dict |-> EmptyDict]

IdleJob ==
    [ chat         |-> 0,
      kind         |-> "none",      \* "archive" | "image"
      pc           |-> "idle",
      archive_path |-> << >>,       \* the lowered document name
      files        |-> {},          \* the files inside the archive
      corrupt      |-> FALSE,       \* the archive cannot be unpacked
      scratch      |-> "none",      \* temp_dir: "none" | "exists" | "removed"
      mode         |-> NoMode,      \* the local variable `mode`
      extracted    |-> "no",        \* "no" | "ok" | "failed"
      pages        |-> << >>,       \* sorted(image_files)
      idx          |-> 0,           \* the page of the current iteration
      all_text     |-> << >>,       \* the transcript, one entry per page
      out          |-> << >>,       \* the messages sent so far, in order
      ocr_calls    |-> << >>,       \* the ocr_image calls made so far
      cleanups     |-> 0,           \* runs of the finally block
      cancel_ack   |-> FALSE,       \* /cancel set a flag since the upload
      cancel_at    |-> -1,          \* pages done when it did so between pages
      cancel_early |-> FALSE,       \* it did so before the page loop
      cancel_in_call |-> -1,        \* the page whose OCR call awaited then
      superseded   |-> FALSE ]      \* an upload replaced the chat's entry
                                    \* while the task was in its page loop

\* the slot of the next task: slots are used in order
FreeSlot(j) ==
    /\ j \in JobIds
    /\ jobs[j].pc = "idle"
    /\ \A i \in JobIds : i < j => jobs[i].pc # "idle"

\* handlers.py:238, 328  active_jobs[chat_id] = {...} while tasks of the chat
\* run: a task in its page loop goes on with the entry that replaced its own
supersede(js, c) ==
    [k \in DOMAIN js |->
        IF js[k].chat = c /\ js[k].pc \in {"loop", "ocr"}
        THEN [js[k] EXCEPT !.superseded = TRUE] ELSE js[k]]

\* a task that was created and has not run its finally block
Alive(j) == jobs[j].pc \notin {"idle", "accepted", "done"}

\* handlers.py:225-247  handle_file, a document whose name is an archive's:
\* registers the chat and replies; the task is created after that reply
\* (the .txt branch is handle_file_txt), or a document of any other name:
\* the "Unsupported file" reply, and temp_dir is removed
handle_file(c, file_name, n, corrupt) ==
    /\ running = 0
    /\ LET name == Lower(file_name) IN
       IF is_archive_name(name)
       THEN \E j \in JobIds :
              /\ FreeSlot(j)
              /\ active_jobs' = register(active_jobs, c)
              /\ jobs' = [supersede(jobs, c) EXCEPT ![j] =
                    [IdleJob EXCEPT
                        !.chat = c, !.kind = "archive", !.pc = "accepted",
                        !.archive_path = name, !.files = ArchiveFiles(n),
                        !.corrupt = corrupt, !.scratch = "exists",
                        !.out = << Msg("received", file_name, 0, "",
                                       << >>) >> ]]
       ELSE /\ ~is_txt_name(name)
            /\ UNCHANGED <<active_jobs, jobs>>
    /\ reply' = IF is_archive_name(Lower(file_name)) THEN NoReply
                ELSE Reply("unsupported_file", [scratch |-> reject_cleanup])
    /\ UNCHANGED <<user_settings, running, credVars, trVars>>

\* handlers.py:318-335  handle_image: registers the chat and replies
handle_image(c) ==
    /\ running = 0
    /\ \E j \in JobIds :
          /\ FreeSlot(j)
          /\ active_jobs' = register(active_jobs, c)
          /\ jobs' = [supersede(jobs, c) EXCEPT ![j] =
                [IdleJob EXCEPT
                    !.chat = c, !.kind = "image", !.pc = "accepted",
                    !.scratch = "exists",
                    !.out = << Msg("received", << >>, 0, "", << >>) >> ]]
    /\ reply' = NoReply
    /\ UNCHANGED <<user_settings, running, credVars, trVars>>

\* handlers.py:246, 336  asyncio.create_task(...) once the reply returned
create_task(j) ==
    /\ running = 0
    /\ jobs[j].pc = "accepted"
    /\ jobs' = [jobs EXCEPT ![j].pc = "created"]
    /\ reply' = NoReply
    /\ UNCHANGED <<active_jobs, user_settings, running, credVars, trVars>>

\* ocr.py:112-118 (archive), ocr.py:177-180 (image): the task starts, reads
\* mode and formats its first reply with mode.upper(); a mode that is no str
\* raises, and the worker's except branch replies "OCR failed"/"OCR error"
task_begin(j) ==
    /\ running = 0
    /\ jobs[j].pc = "created"
    /\ LET mode == get_mode(user_settings, jobs[j].chat) IN
       jobs' = [jobs EXCEPT ![j] =
          IF has_upper(mode)
          THEN [@ EXCEPT !.mode = mode, !.pc = "begun",
                   !.out = Append(@, Msg("using", << >>, 0, "", << >>))]
          ELSE [@ EXCEPT !.mode = mode, !.pc = "except",
                   !.out = Append(@, Msg("failed", << >>, 0, "", << >>))]]
    /\ reply' = NoReply
    /\ UNCHANGED <<active_jobs, user_settings, running, credVars, trVars>>

\* os.path.splitext(p)[0]: p without its last ".ext"
splitext_root(p) ==
    LET dots == {i \in DOMAIN p : p[i] = 46 /\ i > 1}
        last == IF dots = {} THEN Len(p) + 1
                ELSE CHOOSE i \in dots : \A k \in dots : k <= i
    IN  SubSeq(p, 1, last - 1)

\* ocr.py:160  splitext(basename(archive_path))[0] + ".txt"
result_name(archive_path) ==
    splitext_root(basename(archive_path)) \o <<46, 116, 120, 116>>

\* ocr.py:151, 159  all_text.strip() is empty: every page adds the header
\* "--- <name> ---", so the transcript is blank only when it has no page
transcript_blank(all_text) == Len(all_text) = 0

\* variant: a page loop that ends at the first page without text
after_ocr_stops_on_blank(jb, text) ==
    IF text = "" THEN [jb EXCEPT !.pc = "return"]
    ELSE LET page == jb.pages[jb.idx] IN
         [jb EXCEPT
            !.all_text = Append(@, [name |-> basename(page), text |-> text]),
            !.out = IF wants_progress(jb.idx)
                    THEN Append(@, Msg("progress", basename(page), jb.idx,
                                       text, << >>))
                    ELSE @,
            !.idx = @ + 1,
            !.pc = "loop"]

\* ocr.py:151-157  the text of page idx came back: it is appended to the
\* transcript under its file name, and reported at once for the first pages
after_ocr(jb, text) ==
    LET page == jb.pages[jb.idx] IN
    [jb EXCEPT
        !.all_text = Append(@, [name |-> basename(page), text |-> text]),
        !.out = IF wants_progress(jb.idx)
                THEN Append(@, Msg("progress", basename(page), jb.idx, text,
                                   << >>))
                ELSE @,
        !.idx = @ + 1,
        !.pc = "loop"]

\* variant: an unpacking whose failure is passed over
extract_fails_ignored(jb) == FALSE

\* ocr.py:120-132  extractall raises on an archive that cannot be read
extract_fails(jb) == jb.corrupt

\* ocr.py:120-142  after the first reply: unpack, scan, sort; the page loop
\* is entered without another suspension
process_archive_extract(j) ==
    /\ running = 0
    /\ jobs[j].pc = "begun"
    /\ jobs[j].kind = "archive"
    /\ LET jb == jobs[j]
           images == scan_images(jb.files)
       IN  IF ~can_unpack(jb.archive_path)
           THEN /\ jobs' = [jobs EXCEPT ![j] = [jb EXCEPT
                       !.pc = "return",
                       !.out = Append(@, Msg("unsupported", << >>, 0, "",
                                             << >>))]]
                /\ running' = 0
           ELSE IF extract_fails(jb)
           THEN /\ jobs' = [jobs EXCEPT ![j] = [jb EXCEPT
                       !.extracted = "failed", !.pc = "return",
                       !.out = Append(@, Msg("extract_error", << >>, 0, "",
                                             << >>))]]
                /\ running' = 0
           ELSE IF images = {}
           THEN /\ jobs' = [jobs EXCEPT ![j] = [jb EXCEPT
                       !.extracted = "ok", !.pc = "return",
                       !.out = Append(@, Msg("no_images", << >>, 0, "",
                                             << >>))]]
                /\ running' = 0
           ELSE /\ jobs' = [jobs EXCEPT ![j] = [jb EXCEPT
                       !.extracted = "ok", !.pages = sorted(images),
                       !.idx = 1, !.pc = "loop"]]
                /\ running' = j
    /\ reply' = NoReply
    /\ UNCHANGED <<active_jobs, user_settings, credVars, trVars>>

\* ocr.py:145-171  one iteration of the page loop, or what follows the loop.
\* The local backend returns without suspending; the online backend awaits
\* the network (pc "ocr") and the iteration resumes when its text is back.
\* The iteration suspends again only in the reply of a reported page.
process_archive_page(j) ==
    /\ running \in {0, j}
    /\ jobs[j].pc \in {"loop", "ocr"}
    /\ jobs[j].kind = "archive"
    /\ LET jb == jobs[j]
           m  == page_mode(jb, user_settings)
       IN
       IF jb.pc = "ocr"
       THEN \E outcome \in OcrOutcomes :
              /\ jobs' = [jobs EXCEPT ![j] = after_ocr(
                    [jb EXCEPT !.ocr_calls[Len(jb.ocr_calls)].outcome =
                        outcome], ocr_image(m, outcome))]
              /\ running' = IF wants_progress(jb.idx) THEN 0 ELSE j
       ELSE IF jb.idx > Len(jb.pages)
       THEN /\ jobs' = [jobs EXCEPT ![j] = [jb EXCEPT
                   !.pc = "return",
                   !.out = Append(@,
                       IF ~transcript_blank(jb.all_text)
                       THEN Msg("document", result_name(jb.archive_path), 0,
                                "", jb.all_text)
                       ELSE Msg("no_text", << >>, 0, "", << >>))]]
            /\ running' = 0
       ELSE IF cancel_requested(active_jobs, jb.chat)
       THEN /\ jobs' = [jobs EXCEPT ![j] = [jb EXCEPT
                   !.pc = "return",
                   !.out = Append(@, Msg("cancelled", << >>, 0, "", << >>))]]
            /\ running' = 0
       ELSE IF ocr_backend(m) = "online"
       THEN /\ jobs' = [jobs EXCEPT ![j] = [jb EXCEPT
                   !.pc = "ocr",
                   !.ocr_calls = Append(@, [path |-> jb.pages[jb.idx],
                                            mode |-> m,
                                            outcome |-> "awaited"])]]
            /\ running' = 0
       ELSE \E outcome \in OcrOutcomes :
              /\ jobs' = [jobs EXCEPT ![j] = after_ocr(
                    [jb EXCEPT !.ocr_calls =
                        Append(@, [path |-> jb.pages[jb.idx],
                                   mode |-> m, outcome |-> outcome])],
                    ocr_image(m, outcome))]
              /\ running' = IF wants_progress(jb.idx) THEN 0 ELSE j
    /\ reply' = NoReply
    /\ UNCHANGED <<active_jobs, user_settings, credVars, trVars>>

\* ocr.py:184-195  the text of a photo is delivered inline or as a document
deliver_image(jb, text) ==
    [jb EXCEPT
        !.pc = "return",
        !.out = Append(@,
            IF as_document(text)
            THEN Msg("image_document", << >>, 0, text, << >>)
            ELSE Msg("inline", << >>, 0, text, << >>))]

\* ocr.py:182-195  after the first reply: OCR of the photo, then delivery
process_single_image_ocr(j) ==
    /\ running = 0
    /\ jobs[j].pc \in {"begun", "ocr"}
    /\ jobs[j].kind = "image"
    /\ LET jb == jobs[j] IN
       IF jb.pc = "ocr"
       THEN \E text \in ImageTexts :
              jobs' = [jobs EXCEPT ![j] = deliver_image(jb, text)]
       ELSE IF ocr_backend(jb.mode) = "online"
       THEN jobs' = [jobs EXCEPT ![j] = [jb EXCEPT
                   !.pc = "ocr",
                   !.ocr_calls = Append(@, [path |-> << >>,
                                            mode |-> jb.mode])]]
       ELSE \E text \in ImageTexts :
              jobs' = [jobs EXCEPT ![j] = deliver_image(
                    [jb EXCEPT !.ocr_calls =
                        Append(@, [path |-> << >>, mode |-> jb.mode])],
                    text)]
    /\ reply' = NoReply
    /\ UNCHANGED <<active_jobs, user_settings, running, credVars, trVars>>

\* handlers.py:313-315, 344-346  the finally block of worker / image_worker:
\* shutil.rmtree(temp_dir) and active_jobs.pop(chat_id, None).  The task's
\* locals and the record of what it sent end with it.
task_finally(j) ==
    /\ running = 0
    /\ jobs[j].pc \in finally_from
    /\ jobs' = [jobs EXCEPT ![j] = [IdleJob EXCEPT
            !.chat = jobs[j].chat, !.kind = jobs[j].kind,
            !.pc = "done", !.scratch = "removed",
            !.cleanups = jobs[j].cleanups + 1]]
    /\ active_jobs' = pop_job(active_jobs, jobs[j].chat)
    /\ reply' = NoReply
    /\ UNCHANGED <<user_settings, running, credVars, trVars>>

----------------------------------------------------------------------------
(* The credential store: users.py *)

\* an optional name: Python's None, or a str
None == << >>
Some(n) == <<n>>

Names == {"a", "b", "c"}

\* what a user may type as a key or as a new name, and str.strip() of it
RawTexts == {"s1", " s2 ", "  "}

strip(t) ==
    CASE t = " s2 " -> "s2"
      [] t = "  "   -> ""
      [] t = " b "  -> "b"
      [] OTHER      -> t

\* the dict "keys": <name, key> entries in insertion order
has_key(keys, n) == \E i \in DOMAIN keys : keys[i].name = n

key_names(keys) == {keys[i].name : i \in DOMAIN keys}

\* keys.get(n)
key_of(keys, n) ==
    IF has_key(keys, n)
    THEN Some((CHOOSE e \in {keys[i] : i \in DOMAIN keys} : e.name = n).key)
    ELSE None

\* keys[n] = v: replaces in place, or appends a new entry
dict_set(keys, n, v) ==
    IF has_key(keys, n)
    THEN [i \in DOMAIN keys |->
            IF keys[i].name = n THEN [name |-> n, key |-> v] ELSE keys[i]]
    ELSE Append(keys, [name |-> n, key |-> v])

\* keys.pop(n, None)
dict_pop(keys, n) == SelectSeq(keys, LAMBDA e : e.name # n)

\* users.py:71  next(iter(ud["keys"]), None)
first_name(keys) == IF Len(keys) = 0 THEN None ELSE Some(keys[1].name)

\* users.py:31-32  _ensure_user: setdefault(chat_id, {"keys": {}, "active": None})
_ensure_user(d, c) ==
    IF c \in DOMAIN d THEN d
    ELSE [x \in DOMAIN d \cup {c} |->
            IF x = c THEN [keys |-> << >>, active |-> None] ELSE d[x]]

\* users.py:39-42  get_active_key: the key the active name maps to
get_active_key(d, c) ==
    LET ud == _ensure_user(d, c)[c] IN
    IF ud.active # None THEN key_of(ud.keys, ud.active[1]) ELSE None

\* variant: a setActive that does not look whether the name is a key
set_active_key_unchecked(d, c, name) ==
    [d |-> [_ensure_user(d, c) EXCEPT ![c].active = Some(name)],
     ret |-> TRUE, saved |-> TRUE]

\* users.py:45-51  set_active_key: the store after the call, its result,
\* and whether it saved
set_active_key(d, c, name) ==
    LET e == _ensure_user(d, c) IN
    IF has_key(e[c].keys, name)
    THEN [d |-> [e EXCEPT ![c].active = Some(name)], ret |-> TRUE,
          saved |-> TRUE]
    ELSE [d |-> e, ret |-> FALSE, saved |-> FALSE]

\* variant: every added key becomes the active one
add_activates_always(active) == TRUE

\* users.py:60-61  the first key added becomes the active one
add_activates(active) == active = None

\* users.py:54-62  add_user_key; ret is FALSE when ValueError is raised
add_user_key(d, c, name, api_key) ==
    LET key == strip(api_key) IN
    IF key = ""
    THEN [d |-> d, ret |-> FALSE, saved |-> FALSE]
    ELSE LET e == _ensure_user(d, c)
             ks == dict_set(e[c].keys, name, key)
         IN  [d |-> [e EXCEPT ![c] =
                        [keys |-> ks,
                         active |-> IF add_activates(e[c].active)
                                    THEN Some(name) ELSE e[c].active]],
              ret |-> TRUE, saved |-> TRUE]

\* variant: promotion of the name that was inserted last
promote_last(keys) ==
    IF Len(keys) = 0 THEN None ELSE Some(keys[Len(keys)].name)

\* variant: removing the active key clears the pointer
promote_nothing(keys) == None

\* users.py:70-71  the active pointer after the active key was removed
promote(keys) == first_name(keys)

\* users.py:65-73  delete_user_key
delete_user_key(d, c, name) ==
    LET e == _ensure_user(d, c) IN
    IF has_key(e[c].keys, name)
    THEN LET ks == dict_pop(e[c].keys, name) IN
         [d |-> [e EXCEPT ![c] =
                    [keys |-> ks,
                     active |-> IF e[c].active = Some(name)
                                THEN promote(ks) ELSE e[c].active]],
          ret |-> TRUE, saved |-> TRUE]
    ELSE [d |-> e, ret |-> FALSE, saved |-> FALSE]

\* users.py:83  user_settings = _user_data, evaluated before _load(): the
\* name stays bound to the dict object created at users.py:10
users_user_settings == "d0"

\* str(n) of a chat id: its decimal digits
RECURSIVE str_int(_)
str_int(n) ==
    IF n < 10 THEN <<48 + n>> ELSE str_int(n \div 10) \o <<48 + (n % 10)>>

\* int(s) of a string of decimal digits
RECURSIVE int_str(_)
int_str(s) ==
    IF Len(s) = 0 THEN 0
    ELSE 10 * int_str(SubSeq(s, 1, Len(s) - 1)) + (s[Len(s)] - 48)

\* users.py:26  json.dumps(_user_data): a JSON object has string names, so
\* every chat id is written as str(chat_id); the records are written as
\* they are (the keys in insertion order, None as null)
json_dumps(d) == [k \in {str_int(c) : c \in DOMAIN d} |-> d[int_str(k)]]

\* users.py:17-18  {int(cid): val for cid, val in json.loads(...).items()}
json_loads_int(raw) ==
    [c \in {int_str(k) : k \in DOMAIN raw} |->
        raw[CHOOSE k \in DOMAIN raw : int_str(k) = c]]

\* variant: a save of the dict that user_settings names
_save_user_settings(ds, ref) ==
    [exists |-> TRUE, doc |-> json_dumps(ds[users_user_settings])]

\* users.py:24-28  _save writes the dict the global _user_data is bound to
_save(ds, ref) == [exists |-> TRUE, doc |-> json_dumps(ds[ref])]

\* user_handlers.py:137  user_settings.get(chat_id, {}).get("keys", {})
view_keys(ds, c) ==
    IF c \in DOMAIN ds[users_user_settings]
    THEN ds[users_user_settings][c].keys ELSE << >>


\* the store after a call of users.py, and the document after its _save()
commit(r) ==
    /\ dicts' = [dicts EXCEPT ![_user_data] = r.d]
    /\ DATA_FILE' = IF r.saved THEN _save(dicts', _user_data) ELSE DATA_FILE

\* user_handlers.py:108-123  receive_key: the text after "Add Key";
\* pending is context.user_data.get("pending_key_id")
receive_key_run(c, pending, text) ==
    /\ nops < MaxOps
    /\ nops' = nops + 1
    /\ LET key == strip(text) IN
       IF pending = None \/ key = ""
       THEN /\ reply' = Reply("invalid_key", << >>)
            /\ UNCHANGED <<dicts, DATA_FILE>>
       ELSE /\ commit(add_user_key(dicts[_user_data], c, pending[1], key))
            /\ reply' = Reply("key_saved", << >>)

\* receive_key, called with the pending name as an input
receive_key(c, pending, text) ==
    /\ receive_key_run(c, pending, text)
    /\ UNCHANGED <<jobVars, _user_data, trVars>>

\* user_handlers.py:73-90  button_handler: the "set|name" and "del|name"
\* buttons; on success the menu is shown again
button_handler(c, action, name) ==
    /\ nops < MaxOps
    /\ nops' = nops + 1
    /\ action \in {"set", "del"}
    /\ LET r == IF action = "set"
                THEN set_active_key(dicts[_user_data], c, name)
                ELSE delete_user_key(dicts[_user_data], c, name)
       IN  /\ commit(r)
           /\ reply' = IF r.ret THEN Reply("api_menu", << >>)
                       ELSE Reply("key_not_found", << >>)
    /\ UNCHANGED <<jobVars, _user_data, trVars>>

\* variant: a rename that adds the new name and keeps the old one
renamed_keeps_old(ud, old_name, new_name) ==
    [keys |-> dict_set(ud.keys, new_name, key_of(ud.keys, old_name)[1]),
     active |-> IF ud.active = Some(old_name) THEN Some(new_name)
                ELSE ud.active]

\* variant: a rename that leaves the active pointer as it was
renamed_keeps_active(ud, old_name, new_name) ==
    [keys |-> dict_set(dict_pop(ud.keys, old_name), new_name,
                       key_of(ud.keys, old_name)[1]),
     active |-> ud.active]

\* user_handlers.py:148-151  the rename itself, on the record the handler
\* reads through user_settings
renamed(ud, old_name, new_name) ==
    [keys |-> dict_set(dict_pop(ud.keys, old_name), new_name,
                       key_of(ud.keys, old_name)[1]),
     active |-> IF ud.active = Some(old_name) THEN Some(new_name)
                ELSE ud.active]

\* user_handlers.py:139  the new name is taken
name_taken(keys, new_name) == has_key(keys, new_name)

\* user_handlers.py:126-158  receive_rename: the text after "Rename";
\* rename_key is context.user_data.get("rename_key")
receive_rename_run(c, rename_key, text) ==
    /\ nops < MaxOps
    /\ nops' = nops + 1
    /\ LET new_name == strip(text)
           keys == view_keys(dicts, c)
       IN  IF rename_key = None \/ new_name = ""
           THEN /\ reply' = Reply("invalid_name", << >>)
                /\ UNCHANGED <<dicts, DATA_FILE>>
           ELSE IF name_taken(keys, new_name)
           THEN /\ reply' = Reply("name_exists", << >>)
                /\ UNCHANGED <<dicts, DATA_FILE>>
           ELSE IF ~has_key(keys, rename_key[1])
           THEN /\ reply' = Reply("key_not_found", << >>)
                /\ UNCHANGED <<dicts, DATA_FILE>>
           ELSE /\ dicts' = [dicts EXCEPT ![users_user_settings][c] =
                                renamed(@, rename_key[1], new_name)]
                /\ DATA_FILE' = _save(dicts', _user_data)
                /\ reply' = Reply("renamed", << >>)

\* receive_rename, called with the pending rename as an input
receive_rename(c, rename_key, text) ==
    /\ receive_rename_run(c, rename_key, text)
    /\ UNCHANGED <<jobVars, _user_data, trVars>>

----------------------------------------------------------------------------
(* Translation: translate.py and the handlers that call it *)

\* what client.models.generate_content may do: return a text, raise
\* APIError, raise another exception
GenOutcomes == {"translated", "api_error", "error"}

\* variant: a translator that goes on without a key
no_api_key_ignored(api_key) == FALSE

\* translate.py:175  `not api_key`: no active key, or an empty one
no_api_key(api_key) == api_key = None \/ api_key[1] = ""

\* translate.py:165-194  translate_to_hinglish: the text it returns, whether
\* generate_content was called, the client cache (the api_key values that
\* have a client) and the credential store after the call (get_active_key
\* creates the chat's record if absent)
translate_to_hinglish(d, cache, c, outcome) ==
    LET api_key == get_active_key(d, c) IN
    IF no_api_key(api_key)
    THEN [text |-> "set_your_api_key", generate |-> FALSE,
          cache |-> cache, d |-> _ensure_user(d, c)]
    ELSE [text |-> outcome, generate |-> TRUE,
          cache |-> cache \cup {api_key}, d |-> _ensure_user(d, c)]

\* what a user may type after /translate, and the text of the message the
\* command replies to (None: it replies to no message)
TranslateArgs == {<< >>, <<"hello">>}
RepliedTexts  == {None, Some("hi")}

\* handlers.py:349-378  translate_command
translate_command(c, args, replied, outcome) ==
    /\ running = 0
    /\ LET text == IF args # << >> THEN Some(args[1]) ELSE replied IN
       IF text = None
       THEN /\ reply' = Reply("translate_usage", << >>)
            /\ UNCHANGED <<dicts, _client_cache>>
       ELSE LET r == translate_to_hinglish(dicts[_user_data], _client_cache,
                                           c, outcome)
            IN  /\ reply' = Reply("hinglish",
                                  [text |-> r.text, generate |-> r.generate])
                /\ dicts' = [dicts EXCEPT ![_user_data] = r.d]
                /\ _client_cache' = r.cache
    /\ UNCHANGED <<jobVars, _user_data, DATA_FILE, nops, txt, mcVars, uiVars>>

\* handlers.py:254
TXT_LIMIT == 15000

\* the content of an uploaded .txt file: len(content), and whether
\* content.strip() is empty
TxtContents ==
    { [len |-> 0,     blank |-> TRUE],
      [len |-> 3,     blank |-> TRUE],
      [len |-> 5,     blank |-> FALSE],
      [len |-> 15000, blank |-> FALSE],
      [len |-> 15001, blank |-> FALSE],
      [len |-> 15001, blank |-> TRUE] }

\* the document name of a .txt upload: "N.TXT"
TxtNames == { <<78, 46, 84, 88, 84>> }

\* variant: a limit that also rejects a content of exactly 15,000 characters
too_large_inclusive(content) == content.len >= TXT_LIMIT

\* handlers.py:254  len(content) > 15000
too_large(content) == content.len > TXT_LIMIT

IdleTxt ==
    [ pc       |-> "idle",     \* "reading" | "translating" | "replied" | "done"
      chat     |-> 0,
      content  |-> [len |-> 0, blank |-> TRUE],
      scratch  |-> "none",     \* temp_dir: "none" | "exists" | "removed"
      out      |-> << >>,      \* the messages sent so far, in order
      text     |-> "",         \* what translate_to_hinglish returned
      generate |-> FALSE ]     \* generate_content was called

\* handlers.py:225-250  handle_file, a document whose name ends in ".txt":
\* temp_dir is made, the file downloaded, "Reading your .txt file..." sent
handle_file_txt(c, file_name, content) ==
    /\ running = 0
    /\ txt.pc \in {"idle", "done"}
    /\ ~is_archive_name(Lower(file_name))
    /\ is_txt_name(Lower(file_name))
    /\ txt' = [IdleTxt EXCEPT !.pc = "reading", !.chat = c,
                              !.content = content, !.scratch = "exists",
                              !.out = <<"reading">>]
    /\ reply' = NoReply
    /\ UNCHANGED <<jobVars, credVars, _client_cache, mcVars, uiVars>>

\* handlers.py:251-259, 277-282  the content is read and checked; a content
\* that passes goes to translate_txt_content, which replies "Translating..."
txt_check ==
    /\ running = 0
    /\ txt.pc = "reading"
    /\ txt' = IF too_large(txt.content)
              THEN [txt EXCEPT !.pc = "replied",
                               !.out = Append(@, "too_large")]
              ELSE IF txt.content.blank
              THEN [txt EXCEPT !.pc = "replied",
                               !.out = Append(@, "empty")]
              ELSE [txt EXCEPT !.pc = "translating",
                               !.out = Append(@, "translating")]
    /\ reply' = NoReply
    /\ UNCHANGED <<jobVars, credVars, _client_cache, mcVars, uiVars>>

\* handlers.py:283-294  translate_txt_content: the translation is written
\* to a file and sent as a document
txt_translate(outcome) ==
    /\ running = 0
    /\ txt.pc = "translating"
    /\ LET r == translate_to_hinglish(dicts[_user_data], _client_cache,
                                      txt.chat, outcome)
       IN  /\ txt' = [txt EXCEPT !.pc = "replied",
                                 !.out = Append(@, "document"),
                                 !.text = r.text, !.generate = r.generate]
           /\ dicts' = [dicts EXCEPT ![_user_data] = r.d]
           /\ _client_cache' = r.cache
    /\ reply' = NoReply
    /\ UNCHANGED <<jobVars, _user_data, DATA_FILE, nops, mcVars, uiVars>>

\* handlers.py:262-264  finally: shutil.rmtree(temp_dir)
txt_finally ==
    /\ running = 0
    /\ txt.pc = "replied"
    /\ txt' = [txt EXCEPT !.pc = "done", !.scratch = "removed"]
    /\ reply' = NoReply
    /\ UNCHANGED <<jobVars, credVars, _client_cache, mcVars, uiVars>>

----------------------------------------------------------------------------
(* Commands on the job registry and the settings: handlers.py *)

\* a job of chat c that is registered and has not run its finally block
Cancellable(jb, c) ==
    jb.chat = c /\ jb.pc \notin {"idle", "done"}

\* handlers.py:299-305  cancel: sets the flag of the chat's registry entry.
\* Each unfinished job of the chat notes that a flag was set for it, and the
\* number of pages it had done when that first happened between two pages,
\* whether it happened before the page loop, and the page whose OCR call was
\* awaited when it first happened during a call.
cancel(c) ==
    /\ running = 0
    /\ IF c \in DOMAIN active_jobs
       THEN /\ active_jobs' = set_cancel(active_jobs, c)
            /\ jobs' = [j \in JobIds |->
                 IF Cancellable(jobs[j], c)
                 THEN [jobs[j] EXCEPT
                         !.cancel_ack = TRUE,
                         !.cancel_at =
                            IF jobs[j].pc = "loop" /\ jobs[j].cancel_at = -1
                            THEN Len(jobs[j].all_text) ELSE @,
                         !.cancel_early =
                            @ \/ jobs[j].pc \in {"accepted", "created", "begun"},
                         !.cancel_in_call =
                            IF jobs[j].pc = "ocr" /\ jobs[j].cancel_in_call = -1
                            THEN jobs[j].idx ELSE @]
                 ELSE jobs[j]]
            /\ reply' = Reply("cancelled", << >>)
       ELSE /\ reply' = Reply("no_active_task", << >>)
            /\ UNCHANGED <<active_jobs, jobs>>
    /\ UNCHANGED <<user_settings, running, credVars, trVars>>

\* d[k] = v on a Python dict
dict_put(d, k, v) == [x \in DOMAIN d \cup {k} |-> IF x = k THEN v ELSE d[x]]

\* d.pop(k, None)
dict_del(d, k) == [x \in DOMAIN d \ {k} |-> d[x]]

\* user_settings.setdefault(chat_id, {})
setdefault(us, c) == IF c \in DOMAIN us THEN us ELSE dict_put(us, c, EmptyDict)

\* variant: a command that takes any argument as a mode
valid_mode_any(mode) == TRUE

\* handlers.py:212  mode not in ("local", "online")
valid_mode(mode) == mode \in {STR_LOCAL, STR_ONLINE}

\* what a user may type after /ocrmode: nothing, "local", "ONLINE", "fast"
OcrModeArgs ==
    { << >>,
      << <<108, 111, 99, 97, 108>> >>,
      << <<79, 78, 76, 73, 78, 69>> >>,
      << <<102, 97, 115, 116>> >> }

\* handlers.py:198-222  set_ocr_mode
set_ocr_mode(c, args) ==
    /\ running = 0
    /\ IF args = << >>
       THEN /\ reply' = Reply("ocrmode_current",
                              stored_ocr_mode(user_settings, c))
            /\ UNCHANGED user_settings
       ELSE LET mode == Lower(args[1]) IN
            IF ~valid_mode(mode)
            THEN /\ reply' = Reply("ocrmode_invalid", << >>)
                 /\ UNCHANGED user_settings
            ELSE /\ user_settings' =
                      [setdefault(user_settings, c) EXCEPT
                          ![c] = dict_put(@, "ocr_mode", mode)]
                 /\ reply' = Reply("ocrmode_set", mode)
    /\ UNCHANGED <<active_jobs, jobs, running, credVars, trVars>>

\* the string "/style default"
STYLE_DEFAULT ==
    <<47, 115, 116, 121, 108, 101, 32, 100, 101, 102, 97, 117, 108, 116>>

\* what a user may send as a style guide: "/Style Default", "g"
StyleTexts ==
    { <<47, 83, 116, 121, 108, 101, 32, 68, 101, 102, 97, 117, 108, 116>>,
      <<103>> }

\* handlers.py:168-190  receive_style_guide: "/style default" creates the
\* chat's settings dict if absent and removes "style_guide" from it; any
\* other text is stored and an example is translated with
\* translate_to_hinglish, whose result is part of the reply
receive_style_guide_run(c, new_guide, outcome) ==
    /\ running = 0
    /\ IF Lower(new_guide) = STYLE_DEFAULT
       THEN /\ user_settings' = [setdefault(user_settings, c) EXCEPT
                                    ![c] = dict_del(@, "style_guide")]
            /\ reply' = Reply("style_reset", << >>)
            /\ UNCHANGED <<dicts, _client_cache>>
       ELSE LET r == translate_to_hinglish(dicts[_user_data], _client_cache,
                                           c, outcome)
            IN  /\ user_settings' =
                      [setdefault(user_settings, c) EXCEPT
                          ![c] = dict_put(@, "style_guide", new_guide)]
                /\ reply' = Reply("style_saved",
                                  [text |-> r.text, generate |-> r.generate])
                /\ dicts' = [dicts EXCEPT ![_user_data] = r.d]
                /\ _client_cache' = r.cache

\* receive_style_guide, called in the waiting state of the conversation
receive_style_guide(c, new_guide, outcome) ==
    /\ receive_style_guide_run(c, new_guide, outcome)
    /\ UNCHANGED <<active_jobs, jobs, running, _user_data, DATA_FILE, nops,
                   txt, mcVars, uiVars>>

----------------------------------------------------------------------------
(* The model menu: translate.fetch_available_models and its handlers *)

\* translate.py:116  the freshness window of a cached listing, in seconds
CACHE_WINDOW == 300

\* translate.py:120-124, 147-151  the models of the fallback dict
FALLBACK == {"gemini-1.5-flash", "gemini-1.5-pro", "gemini-2.0-flash-exp"}

\* what client.models.list() may do: raise, or return models; of a model
\* the code looks at its name (gemini: it starts with "gemini-") and at
\* whether it supports generateContent (gen)
Listings ==
    { [raises |-> TRUE,  models |-> {}],
      [raises |-> FALSE, models |-> {}],
      [raises |-> FALSE, models |->
          { [name |-> "embedding-001", gemini |-> FALSE, gen |-> FALSE],
            [name |-> "gemini-pro-vision", gemini |-> TRUE, gen |-> FALSE] }],
      [raises |-> FALSE, models |->
          { [name |-> "gemini-2.5-flash", gemini |-> TRUE, gen |-> TRUE] }] }

\* translate.py:135  the models that go into the menu
eligible(m) == m.gemini /\ m.gen

\* translate.py:130-146  the try block raises when list() raises, and for
\* the first eligible model: line 139 assigns `if_ctx`, line 140 reads the
\* unbound name `_ctx`
listing_fails(listing) ==
    listing.raises \/ \E m \in listing.models : eligible(m)

\* variant: a window that is still open at its last second
fresh_inclusive(nw, timestamp) == nw - timestamp <= CACHE_WINDOW

\* translate.py:116  now - model_cache[cache_key]["timestamp"] < 300
fresh(nw, timestamp) == nw - timestamp < CACHE_WINDOW

\* translate.py:113-153  fetch_available_models at time nw: the models it
\* returns, the cache and the credential store after it, whether it served
\* the cached entry (hit) and whether it called client.models.list (listed).
\* cache_key is the chat id (chat ids are not 0).
fetch_available_models(mc, d, c, nw, listing) ==
    IF c \in DOMAIN mc /\ fresh(nw, mc[c].timestamp)
    THEN [models |-> mc[c].models, mc |-> mc, d |-> d,
          hit |-> TRUE, listed |-> FALSE]
    ELSE LET api_key == get_active_key(d, c)
             models  ==
                IF no_api_key(api_key) \/ listing_fails(listing)
                THEN FALLBACK
                ELSE {m.name : m \in {x \in listing.models : eligible(x)}}
         IN  [models |-> models,
              mc |-> [x \in DOMAIN mc \cup {c} |->
                        IF x = c THEN [models |-> models, timestamp |-> nw]
                        ELSE mc[x]],
              d |-> _ensure_user(d, c),
              hit |-> FALSE, listed |-> ~no_api_key(api_key)]

\* what a fetch tells in the reply of its handler
Fetched(r) == [models |-> r.models, hit |-> r.hit, listed |-> r.listed]

\* handlers.py:24-91  model_command: the menu of the fetched models, or
\* "Could not fetch models" when the mapping is empty
model_command(c, listing) ==
    /\ running = 0
    /\ LET r == fetch_available_models(model_cache, dicts[_user_data], c,
                                       now, listing)
       IN  /\ model_cache' = r.mc
           /\ dicts' = [dicts EXCEPT ![_user_data] = r.d]
           /\ reply' = IF r.models = {}
                       THEN Reply("could_not_fetch", Fetched(r))
                       ELSE Reply("model_menu", Fetched(r))
    /\ fetched' = dict_put(fetched, c, now)
    /\ UNCHANGED <<jobVars, _user_data, DATA_FILE, nops, _client_cache, txt,
                   now, uiVars>>

\* the model a button names: "pro"
ModelNames == { <<112, 114, 111>> }

\* handlers.py:94-150  button_callback: stores the chosen model, fetches
\* the models again and shows the menu with the confirmation
button_callback(c, new_model, listing) ==
    /\ running = 0
    /\ user_settings' = [setdefault(user_settings, c) EXCEPT
                             ![c] = dict_put(@, "gemini_model", new_model)]
    /\ LET r == fetch_available_models(model_cache, dicts[_user_data], c,
                                       now, listing)
       IN  /\ model_cache' = r.mc
           /\ dicts' = [dicts EXCEPT ![_user_data] = r.d]
           /\ reply' = Reply("model_updated", Fetched(r))
    /\ fetched' = dict_put(fetched, c, now)
    /\ UNCHANGED <<active_jobs, jobs, running, _user_data, DATA_FILE, nops,
                   _client_cache, txt, now, uiVars>>

\* the seconds that pass between two steps
Ticks == {299, 300}

\* time.time() moves on
tick(d) ==
    /\ now + d <= MaxClock
    /\ now' = now + d
    /\ UNCHANGED <<jobVars, credVars, reply, _client_cache, txt, model_cache,
                   fetched, uiVars>>

----------------------------------------------------------------------------
(* Dispatch of updates: bot.py and get_api_handlers *)

\* handlers.py:21  the state of the style conversation that waits for text
WAITING_FOR_STYLE == 0

\* handlers.py:190, 195  ConversationHandler.END: no conversation is open
END == -1

\* context.user_data of a user that has pressed neither Add Key nor Rename
NoPending == [pending_key_id |-> None, rename_key |-> None]

\* bot.py:99-132, user_handlers.py:191-200  the handlers in the order of
\* their add_handler calls, all in the default group: what each one accepts
\* (a callback query whose data begins with one of its patterns, a command,
\* a message of a kind, or the style conversation) and its callback
HANDLERS ==
    << [type |-> "callback", accepts |-> {"model"}, callback |-> "button_callback"],
       [type |-> "command", accepts |-> {"api"}, callback |-> "api_menu"],
       [type |-> "callback", accepts |-> {"add_key", "refresh", "back"},
        callback |-> "button_handler"],
       [type |-> "callback", accepts |-> {"keyinfo"},
        callback |-> "show_key_actions"],
       [type |-> "callback", accepts |-> {"set", "del", "rename"},
        callback |-> "button_handler"],
       [type |-> "message", accepts |-> {"text"}, callback |-> "receive_key"],
       [type |-> "message", accepts |-> {"text"}, callback |-> "receive_rename"],
       [type |-> "conversation", accepts |-> {"style"}, callback |-> "style_conv"],
       [type |-> "command", accepts |-> {"start"}, callback |-> "start"],
       [type |-> "command", accepts |-> {"help"}, callback |-> "help_command"],
       [type |-> "command", accepts |-> {"cancel"}, callback |-> "cancel"],
       [type |-> "command", accepts |-> {"translate"},
        callback |-> "translate_command"],
       [type |-> "command", accepts |-> {"ocrmode"}, callback |-> "set_ocr_mode"],
       [type |-> "command", accepts |-> {"model"}, callback |-> "model_command"],
       [type |-> "message", accepts |-> {"document"}, callback |-> "handle_file"],
       [type |-> "message", accepts |-> {"photo"}, callback |-> "handle_image"] >>

\* an update: a text that is no command, a command, a pressed button, a
\* document or a photo; what names the command or the button's data
Update(kind, what) == [kind |-> kind, what |-> what]

\* bot.py:110-119  the callback of the style conversation for an update in
\* the conversation state conv: the entry point /style when no conversation
\* is open; in the waiting state a text that is no command, or the fallback
\* /cancel; "none" when the conversation does not accept the update
style_conv(u, conv) ==
    IF conv = END
    THEN IF u.kind = "command" /\ u.what = "style" THEN "style_command"
         ELSE "none"
    ELSE IF u.kind = "text" THEN "receive_style_guide"
    ELSE IF u.kind = "command" /\ u.what = "cancel" THEN "cancel_style"
    ELSE "none"

\* whether handler h accepts update u
check_update(h, u, conv) ==
    IF h.type = "conversation" THEN style_conv(u, conv) # "none"
    ELSE IF h.type = "message" THEN u.kind \in h.accepts
    ELSE u.kind = h.type /\ u.what \in h.accepts

\* bot.py:102-132  all handlers are in one group, and an update is given
\* to the first handler of a group that accepts it, and to no other: the
\* callback that runs for update u, "none" when no handler accepts it
process_update(u, conv) ==
    LET accepting == {i \in DOMAIN HANDLERS : check_update(HANDLERS[i], u, conv)}
    IN  IF accepting = {} THEN "none"
        ELSE LET first == CHOOSE i \in accepting : \A k \in accepting : i <= k
             IN  IF HANDLERS[first].type = "conversation"
                 THEN style_conv(u, conv)
                 ELSE HANDLERS[first].callback

\* user_handlers.py:57-67, 92-101  button_handler for "add_key" and
\* "rename|name": the pending name is put into context.user_data; key_id is
\* the name made from uuid4(). The Rename button is on the page that
\* show_key_actions shows for a key of the view (user_handlers.py:166-178).
press_button(c, action, name) ==
    /\ nops < MaxOps
    /\ nops' = nops + 1
    /\ action \in {"add_key", "rename"}
    /\ action = "rename" => has_key(view_keys(dicts, c), name)
    /\ handled_by' = process_update(Update("callback", action),
                                    conversations[c])
    /\ user_data' = [user_data EXCEPT ![c] =
          IF action = "add_key" THEN [@ EXCEPT !.pending_key_id = Some(name)]
          ELSE [@ EXCEPT !.rename_key = Some(name)]]
    /\ reply' = IF action = "add_key" THEN Reply("send_key", name)
                ELSE Reply("send_new_name", name)
    /\ UNCHANGED <<jobVars, dicts, _user_data, DATA_FILE, _client_cache, txt,
                   mcVars, conversations>>

\* handlers.py:153-165  the command /style: the style conversation, when
\* none is open for the chat, runs style_command and waits for the text; in
\* the waiting state no handler accepts the command
command_style(c) ==
    /\ nops < MaxOps
    /\ nops' = nops + 1
    /\ LET h == process_update(Update("command", "style"), conversations[c])
       IN  /\ handled_by' = h
           /\ IF h = "style_command"
              THEN /\ conversations' =
                        [conversations EXCEPT ![c] = WAITING_FOR_STYLE]
                   /\ reply' = Reply("style_prompt", << >>)
              ELSE /\ reply' = NoReply
                   /\ UNCHANGED conversations
    /\ UNCHANGED <<jobVars, dicts, _user_data, DATA_FILE, _client_cache, txt,
                   mcVars, user_data>>

\* handlers.py:193-195  the command /cancel while the style conversation
\* waits: its fallback cancel_style ends the conversation
command_cancel_style(c) ==
    /\ nops < MaxOps
    /\ nops' = nops + 1
    /\ process_update(Update("command", "cancel"), conversations[c])
          = "cancel_style"
    /\ handled_by' = "cancel_style"
    /\ conversations' = [conversations EXCEPT ![c] = END]
    /\ reply' = Reply("style_cancelled", << >>)
    /\ UNCHANGED <<jobVars, dicts, _user_data, DATA_FILE, _client_cache, txt,
                   mcVars, user_data>>

\* the texts a user sends, as the string the credential handlers read and
\* as the characters the style handler reads: "s1", "c", "  "
SentTexts ==
    { [str |-> "s1", chars |-> <<115, 49>>],
      [str |-> "c", chars |-> <<99>>],
      [str |-> "  ", chars |-> <<32, 32>>] }

\* a text message that is no command: the callback process_update chooses
\* runs with the pending state of the user. receive_key always removes
\* pending_key_id (user_handlers.py:116, 120), receive_rename removes
\* rename_key unless the new name exists (user_handlers.py:133, 139-146,
\* 154), receive_style_guide ends the conversation (handlers.py:190).
text_message(c, text, outcome) ==
    LET h == process_update(Update("text", ""), conversations[c]) IN
    /\ handled_by' = h
    /\ IF h = "receive_key"
       THEN /\ receive_key_run(c, user_data[c].pending_key_id, text.str)
            /\ user_data' = [user_data EXCEPT ![c].pending_key_id = None]
            /\ UNCHANGED <<jobVars, _user_data, _client_cache, txt, mcVars,
                           conversations>>
       ELSE IF h = "receive_rename"
       THEN /\ receive_rename_run(c, user_data[c].rename_key, text.str)
            /\ user_data' = IF reply'.kind = "name_exists" THEN user_data
                            ELSE [user_data EXCEPT ![c].rename_key = None]
            /\ UNCHANGED <<jobVars, _user_data, _client_cache, txt, mcVars,
                           conversations>>
       ELSE /\ h = "receive_style_guide"
            /\ receive_style_guide_run(c, text.chars, outcome)
            /\ conversations' = [conversations EXCEPT ![c] = END]
            /\ UNCHANGED <<active_jobs, jobs, running, _user_data, DATA_FILE,
                           nops, txt, mcVars, user_data>>

----------------------------------------------------------------------------
(* Initial states *)

NoFile == [exists |-> FALSE, doc |-> [c \in {} |-> 0]]

\* a document an earlier run has saved: chat "1" holds a -> s1, b -> s2, a
\* active
SavedDoc ==
    [c \in { <<49>> } |->
        [keys |-> << [name |-> "a", key |-> "s1"], [name |-> "b", key |-> "s2"] >>,
         active |-> Some("a")]]

InitialFiles == {NoFile, [exists |-> TRUE, doc |-> SavedDoc]}

\* users.py:10-21, 83-85  the module is imported: _user_data = {},
\* user_settings = _user_data, then _load() rebinds the global _user_data
\* to a new dict when the document exists
_load(file) ==
    /\ DATA_FILE = file
    /\ dicts = [o \in {"d0", "d1"} |->
                  IF o = "d1" /\ file.exists THEN json_loads_int(file.doc)
                  ELSE [c \in {} |-> 0]]
    /\ _user_data = IF file.exists THEN "d1" ELSE "d0"

\* handlers.py:18-19  active_jobs = {}, user_settings = {}; no task yet
InitJobs ==
    /\ active_jobs = [c \in {} |-> 0]
    /\ user_settings = [c \in {} |-> 0]
    /\ jobs = [j \in JobIds |-> IdleJob]
    /\ running = 0
    /\ reply = NoReply
    /\ nops = 0
    /\ _client_cache = {}
    /\ txt = IdleTxt
    /\ model_cache = [c \in {} |-> 0]
    /\ now = 0
    /\ fetched = [c \in {} |-> 0]
    /\ user_data = [c \in Chats |-> NoPending]
    /\ conversations = [c \in Chats |-> END]
    /\ handled_by = "none"

\* a first start: no credential document exists
Init == InitJobs /\ _load(NoFile)

\* a start with or without a saved credential document
InitCred == InitJobs /\ \E file \in InitialFiles : _load(file)

----------------------------------------------------------------------------
(* Specifications *)

\* the uploads of a behaviour: archives of 0..MaxPages images, one corrupt
Uploads ==
    {[n |-> n, corrupt |-> FALSE] : n \in 0..MaxPages}
        \cup {[n |-> 1, corrupt |-> TRUE]}

JobStep(j) ==
    \/ create_task(j)
    \/ task_begin(j)
    \/ process_archive_extract(j)
    \/ process_archive_page(j)
    \/ process_single_image_ocr(j)
    \/ task_finally(j)

Next ==
    \/ \E c \in JobChats, f \in ArchiveNames, u \in Uploads :
          handle_file(c, f, u.n, u.corrupt)
    \/ \E c \in JobChats : handle_image(c)
    \/ \E j \in JobIds : JobStep(j)
    \/ \E c \in JobChats : cancel(c)
    \/ \E c \in JobChats : set_ocr_mode(c, << STR_ONLINE >>)

\* the job orchestration: uploads, tasks, /cancel, /ocrmode
Spec == Init /\ [][Next]_vars

\* the uploads of the behaviours checked for progress: an archive without
\* images, one with two pages (both are reported at once), a corrupt one
LiveUploads == {u \in Uploads : u.corrupt \/ u.n \in {0, 2}}

NextLive ==
    \/ \E c \in JobChats, f \in ArchiveNames, u \in LiveUploads :
          handle_file(c, f, u.n, u.corrupt)
    \/ \E c \in JobChats : handle_image(c)
    \/ \E j \in JobIds : JobStep(j)
    \/ \E c \in JobChats : cancel(c)
    \/ \E c \in JobChats : set_ocr_mode(c, << STR_ONLINE >>)

\* the job orchestration with the event loop's scheduling: a task that can
\* take a step eventually takes it (every awaited reply returns)
SpecLive ==
    Init /\ [][NextLive]_vars /\ \A j \in JobIds : WF_vars(JobStep(j))

\* what a user may type as the new name of a key
RenameTexts == {"a", " b ", "c", "  "}

NextCred ==
    \/ \E c \in Chats, pending \in {None} \cup {Some(n) : n \in Names},
          text \in RawTexts : receive_key(c, pending, text)
    \/ \E c \in Chats, action \in {"set", "del"}, name \in Names :
          button_handler(c, action, name)
    \/ \E c \in Chats, rename_key \in {None} \cup {Some(n) : n \in Names},
          text \in RenameTexts : receive_rename(c, rename_key, text)

\* the credential handlers of /api
SpecCred == InitCred /\ [][NextCred]_vars

\* the steps of a .txt upload
TxtStep ==
    \/ txt_check
    \/ \E outcome \in GenOutcomes : txt_translate(outcome)
    \/ txt_finally

\* a .txt upload that passes the checks of handle_file
GoodTxt == {x \in TxtContents : ~too_large(x) /\ ~x.blank /\ x.len < 10}

\* a style guide that is no reset: "g"
NewStyles == {g \in StyleTexts : Lower(g) # STYLE_DEFAULT}

NextTranslate ==
    \/ \E c \in Chats, text \in {"s1", "  "} : receive_key(c, Some("a"), text)
    \/ \E c \in Chats : button_handler(c, "del", "a")
    \/ \E c \in Chats, args \in TranslateArgs, replied \in RepliedTexts,
          outcome \in GenOutcomes : translate_command(c, args, replied, outcome)
    \/ \E c \in Chats, f \in TxtNames, content \in GoodTxt :
          handle_file_txt(c, f, content)
    \/ TxtStep
    \/ \E c \in Chats, g \in NewStyles, outcome \in GenOutcomes :
          receive_style_guide(c, g, outcome)

\* translation requests of chats with and without an active key
SpecTranslate == InitCred /\ [][NextTranslate]_vars

\* the steps of an archive job
ArchiveStep(j) ==
    \/ create_task(j)
    \/ task_begin(j)
    \/ process_archive_extract(j)
    \/ process_archive_page(j)
    \/ task_finally(j)

\* one-page archives of two chats, their commands and their keys
NextChats ==
    \/ \E c \in Chats, f \in ArchiveNames : handle_file(c, f, 1, FALSE)
    \/ \E j \in JobIds : ArchiveStep(j)
    \/ \E c \in Chats : cancel(c)
    \/ \E c \in Chats : set_ocr_mode(c, << STR_ONLINE >>)
    \/ \E c \in Chats : receive_key(c, Some("a"), "s1")

\* two chats side by side
SpecChats == Init /\ [][NextChats]_vars

\* document names of archives in mixed case: "M.CBZ", "a.Zip", "b.7Z"
MixedArchiveNames == ArchiveNames \cup { <<97, 46, 90, 105, 112>>, <<98, 46, 55, 90>> }

\* document names that are neither an archive's nor a text's: "p.pdf", "zip"
OtherNames == { <<112, 46, 112, 100, 102>>, <<122, 105, 112>> }

\* documents of every kind, the tasks and the translation they start
NextUpload ==
    \/ \E c \in JobChats, f \in MixedArchiveNames \cup OtherNames :
          handle_file(c, f, 1, FALSE)
    \/ \E c \in JobChats, f \in TxtNames, x \in GoodTxt :
          handle_file_txt(c, f, x)
    \/ TxtStep
    \/ \E j \in JobIds : ArchiveStep(j)
    \/ \E c \in JobChats : set_ocr_mode(c, << STR_ONLINE >>)

\* the document handler, after a start with or without saved keys
SpecUpload == InitCred /\ [][NextUpload]_vars

\* the model menu of two chats over time
NextModels ==
    \/ \E c \in Chats, listing \in Listings : model_command(c, listing)
    \/ \E c \in Chats, m \in ModelNames, listing \in Listings :
          button_callback(c, m, listing)
    \/ \E d \in Ticks : tick(d)

\* /model and its buttons, after a start with or without saved keys
SpecModels == InitCred /\ [][NextModels]_vars

NextDispatch ==
    \/ \E c \in Chats, action \in {"add_key", "rename"}, name \in {"a", "b"} :
          press_button(c, action, name)
    \/ \E c \in Chats : command_style(c)
    \/ \E c \in Chats : command_cancel_style(c)
    \/ \E c \in Chats, text \in SentTexts, outcome \in {"translated"} :
          text_message(c, text, outcome)

\* buttons, /style and text messages as the application dispatches them
SpecDispatch == Init /\ [][NextDispatch]_vars

NextSettings ==
    \/ \E c \in Chats, args \in OcrModeArgs : set_ocr_mode(c, args)
    \/ \E c \in Chats, g \in StyleTexts, outcome \in GenOutcomes :
          receive_style_guide(c, g, outcome)

\* the settings commands /ocrmode and /style
SpecSettings == Init /\ [][NextSettings]_vars

NextTxt ==
    \/ \E c \in Chats, f \in TxtNames, content \in TxtContents :
          handle_file_txt(c, f, content)
    \/ TxtStep
    \/ \E c \in JobChats : receive_key(c, Some("a"), "s1")
    \/ \E c \in JobChats : handle_image(c)
    \/ \E j \in JobIds :
          \/ create_task(j)
          \/ task_begin(j)
          \/ process_single_image_ocr(j)
          \/ task_finally(j)

\* .txt uploads of every size, next to photo jobs
SpecTxt == InitCred /\ [][NextTxt]_vars

----------------------------------------------------------------------------
(* Properties of the job registry and the workers *)

\* the messages of one kind a job has sent, in order
Sent(jb, kind) == SelectSeq(jb.out, LAMBDA m : m.kind = kind)

\* the last message a job has sent
LastSent(jb) == jb.out[Len(jb.out)]

\* a finished run of the processing function, before the finally block
Finished(jb) == jb.pc \in {"return", "except"}

\* C1: in every reachable state every chat has at most one job task that was
\* started (its task was created) and has not yet run its cleanup, also when
\* a second archive or photo arrives while the earlier job is still running.
C1_OneJobPerChat ==
    \A c \in Chats :
        Cardinality({j \in JobIds : Alive(j) /\ jobs[j].chat = c}) <= 1

\* C2: every started job task, whichever way it ends, eventually runs its
\* cleanup, and runs it exactly once; the cleanup removes the scratch
\* directory and the chat's entry of the job registry.
C2_CleanupOnce ==
    /\ \A j \in JobIds :
          (jobs[j].pc = "created")
              ~> (jobs[j].pc = "done" /\ jobs[j].cleanups = 1
                    /\ jobs[j].scratch = "removed")
    /\ [][\A j \in JobIds :
            task_finally(j) =>
                /\ jobs[j].cleanups = 0
                /\ jobs[j].scratch = "exists"
                /\ jobs'[j].scratch = "removed"
                /\ jobs[j].chat \notin DOMAIN active_jobs']_vars

\* C2 witness: a task has run its finally block, once; its scratch directory
\* is gone and its chat has no registry entry
C2_Witness ==
    \E j \in JobIds :
        /\ jobs[j].pc = "done"
        /\ jobs[j].cleanups = 1
        /\ jobs[j].scratch = "removed"
        /\ jobs[j].chat \notin DOMAIN active_jobs

\* C3: when /cancel is handled for the chat of an archive job after page k
\* was processed and before page k+1 begins (1 <= k < n), the job makes no
\* OCR call for page k+1 or a later page, it reports the cancellation and
\* sends no final document, and the progress reports of pages 1..k stay.
C3_CancelBetweenPages ==
    \A j \in JobIds :
        LET jb == jobs[j]
            k  == jb.cancel_at
        IN  (jb.kind = "archive" /\ k >= 1 /\ k < Len(jb.pages)) =>
                /\ Len(jb.ocr_calls) = k
                /\ Len(Sent(jb, "document")) = 0
                /\ Len(Sent(jb, "progress")) = (IF k < 2 THEN k ELSE 2)
                /\ jb.pc = "return" => LastSent(jb).kind = "cancelled"

\* C7: an archive job over n >= 1 pages whose OCR texts are all non-empty
\* and that is never cancelled sends exactly min(n, 2) progress messages,
\* for the first two pages in sorted order, and then exactly one document
\* with the texts of all n pages in ascending sorted-path order, each under
\* its file name.
C7_ProgressThenDocument ==
    \A j \in JobIds :
        LET jb       == jobs[j]
            P        == sorted(scan_images(jb.files))
            n        == Len(P)
            progress == Sent(jb, "progress")
            docs     == Sent(jb, "document")
        IN  ( /\ Finished(jb)
              /\ jb.kind = "archive"
              /\ ~jb.corrupt
              /\ n >= 1
              /\ ~jb.cancel_ack
              /\ \A i \in DOMAIN jb.all_text : jb.all_text[i].text # "" ) =>
                /\ Len(progress) = (IF n < 2 THEN n ELSE 2)
                /\ \A i \in DOMAIN progress :
                      /\ progress[i].idx = i
                      /\ progress[i].name = basename(P[i])
                      /\ progress[i].text # ""
                /\ Len(docs) = 1
                /\ LastSent(jb).kind = "document"
                /\ Len(docs[1].doc) = n
                /\ \A i \in 1..n :
                      /\ docs[1].doc[i].name = basename(P[i])
                      /\ docs[1].doc[i].text # ""

\* C8: an archive that was unpacked and holds no file with an allowlisted
\* image extension gets the "no images found" report, no OCR call and no
\* document, and its job stands where the finally block runs next.
C8_NoImages ==
    \A j \in JobIds :
        LET jb == jobs[j] IN
        ( /\ jb.kind = "archive"
          /\ jb.extracted = "ok"
          /\ \A f \in jb.files : ~is_image(f) ) =>
            /\ LastSent(jb).kind = "no_images"
            /\ Len(Sent(jb, "no_images")) = 1
            /\ jb.ocr_calls = << >>
            /\ Len(Sent(jb, "document")) = 0
            /\ Len(Sent(jb, "progress")) = 0
            /\ jb.scratch = "exists"
            /\ jb.pc \in finally_from

\* C8 witness: the scan of an unpacked archive with files, none of them an
\* image, has ended with the report
C8_Witness ==
    \E j \in JobIds :
        /\ jobs[j].kind = "archive"
        /\ jobs[j].extracted = "ok"
        /\ jobs[j].files # {}
        /\ \A f \in jobs[j].files : ~is_image(f)
        /\ jobs[j].pc = "return"

\* C9: every OCR call of one job uses the mode value the job read when it
\* started, also when /ocrmode is handled for the chat while the job is
\* suspended between two pages.
C9_ModeSnapshot ==
    \A j \in JobIds :
        \A i \in DOMAIN jobs[j].ocr_calls :
            /\ jobs[j].ocr_calls[i].mode = jobs[j].ocr_calls[1].mode
            /\ jobs[j].ocr_calls[i].mode = jobs[j].mode

\* C9 witness: a job that began when its chat had no settings has made its
\* third OCR call, and holds the loop, after /ocrmode stored a mode for the
\* chat
C9_Witness ==
    \E j \in JobIds :
        /\ jobs[j].kind = "archive"
        /\ Len(jobs[j].ocr_calls) = 3
        /\ running = j
        /\ jobs[j].mode.is_str
        /\ jobs[j].chat \in DOMAIN user_settings
        /\ user_settings[jobs[j].chat]["ocr_mode"] = STR_ONLINE

\* the OCR mode a chat had configured when a job read `mode`
configured_mode(jb) ==
    IF ~jb.mode.is_str /\ "ocr_mode" \in DOMAIN jb.mode.dict
    THEN jb.mode.dict["ocr_mode"]
    ELSE STR_LOCAL

\* C10: a job calls the OCR adapter with the chat's configured mode, online
\* after /ocrmode online, local when the stored mode is local or the chat
\* has settings without a mode, and it reaches page processing in all these
\* cases.
C10_ConfiguredMode ==
    \A j \in JobIds :
        LET jb == jobs[j] IN
        jb.pc \in {"begun", "loop", "ocr", "return", "except"} =>
            /\ jb.pc # "except"
            /\ \A i \in DOMAIN jb.ocr_calls :
                  /\ jb.ocr_calls[i].mode.is_str
                  /\ jb.ocr_calls[i].mode.str = configured_mode(jb)

\* the text translate_to_hinglish returns to a chat without a key
NoKeyAnswer(r) == r.text = "set_your_api_key" /\ ~r.generate

\* C11: for a chat with no active credential every translation request
\* (/translate, a .txt upload, the example of a new style guide) gets the
\* fixed "set your API key" text, and neither a client is created nor
\* generate_content called.
C11_NoKeyNoCall ==
    [][\A c \in Chats :
        (IF c \in DOMAIN dicts[_user_data]
         THEN dicts[_user_data][c].active = None ELSE TRUE) =>
          /\ \A args \in TranslateArgs, replied \in RepliedTexts,
                outcome \in GenOutcomes :
                (translate_command(c, args, replied, outcome)
                    /\ (args # << >> \/ replied # None)) =>
                  /\ reply'.kind = "hinglish"
                  /\ NoKeyAnswer(reply'.arg)
                  /\ _client_cache' = _client_cache
          /\ \A outcome \in GenOutcomes :
                (txt_translate(outcome) /\ txt.chat = c) =>
                  /\ NoKeyAnswer(txt')
                  /\ _client_cache' = _client_cache
          /\ \A g \in NewStyles, outcome \in GenOutcomes :
                receive_style_guide(c, g, outcome) =>
                  /\ reply'.kind = "style_saved"
                  /\ NoKeyAnswer(reply'.arg)
                  /\ _client_cache' = _client_cache]_vars

\* C11 witness: a chat whose only key was deleted asked for a translation
\* and got the fixed text, while another chat's key has a client
C11_Witness ==
    /\ reply.kind = "hinglish"
    /\ NoKeyAnswer(reply.arg)
    /\ _client_cache # {}
    /\ \E c \in DOMAIN dicts[_user_data] :
          /\ dicts[_user_data][c].active = None
          /\ nops >= 2

\* C12: a .txt upload of more than 15,000 characters is rejected and the
\* translator is not invoked; one of exactly 15,000 characters that is not
\* blank is passed to the translator; in both cases no job is registered
\* and the scratch directory is removed.
C12_TxtLimit ==
    /\ [](txt.pc \in {"replied", "done"} =>
            /\ txt.content.len > 15000 =>
                  /\ txt.out = <<"reading", "too_large">>
                  /\ txt.text = "" /\ ~txt.generate
            /\ (txt.content.len = 15000 /\ ~txt.content.blank) =>
                  /\ txt.out = <<"reading", "translating", "document">>
                  /\ txt.text # ""
            /\ txt.scratch = (IF txt.pc = "done" THEN "removed" ELSE "exists"))
    /\ [][txt' # txt =>
            /\ active_jobs' = active_jobs
            /\ jobs' = jobs
            /\ txt.pc = "replied" =>
                  (txt'.pc = "done" /\ txt'.scratch = "removed")]_vars

\* C12 witness: an upload of exactly 15,000 characters was translated with
\* the chat's key and its scratch directory is removed
C12_Witness ==
    /\ txt.pc = "done"
    /\ txt.content.len = 15000
    /\ txt.generate
    /\ txt.scratch = "removed"

\* the settings record of a chat, empty when the chat has none
settings_of(us, c) == IF c \in DOMAIN us THEN us[c] ELSE EmptyDict

\* C13: /ocrmode with an argument that is neither local nor online, in any
\* case of letters, leaves the settings unchanged, creates no record for a
\* chat that has none and answers with the validation message; with a valid
\* argument it replaces the ocr mode field of that chat and nothing else.
C13_OcrModeValidation ==
    [][\A c \in Chats, args \in OcrModeArgs :
        (set_ocr_mode(c, args) /\ args # << >>) =>
          LET m == Lower(args[1]) IN
          IF m # STR_LOCAL /\ m # STR_ONLINE
          THEN /\ user_settings' = user_settings
               /\ reply'.kind = "ocrmode_invalid"
          ELSE /\ reply'.kind = "ocrmode_set"
               /\ DOMAIN user_settings' = DOMAIN user_settings \cup {c}
               /\ \A b \in DOMAIN user_settings \ {c} :
                     user_settings'[b] = user_settings[b]
               /\ DOMAIN user_settings'[c] =
                     DOMAIN settings_of(user_settings, c) \cup {"ocr_mode"}
               /\ user_settings'[c]["ocr_mode"] = m
               /\ \A k \in DOMAIN settings_of(user_settings, c) \ {"ocr_mode"} :
                     user_settings'[c][k] = user_settings[c][k]]_vars

\* C13 witness: an invalid argument was refused for a chat that has a style
\* guide and a stored mode, while the other chat still has no record
C13_Witness ==
    /\ reply.kind = "ocrmode_invalid"
    /\ \E c \in DOMAIN user_settings :
          DOMAIN user_settings[c] = {"ocr_mode", "style_guide"}
    /\ \E c \in Chats : c \notin DOMAIN user_settings

----------------------------------------------------------------------------
(* Properties of the credential store *)

\* the record of chat c in the store users.py works on
stored(ds, ref, c) ==
    IF c \in DOMAIN ds[ref] THEN ds[ref][c]
    ELSE [keys |-> << >>, active |-> None]

\* a credential record is well formed
WellFormed(ud) ==
    /\ Len(ud.active) <= 1
    /\ ud.active # None => has_key(ud.keys, ud.active[1])
    /\ \A i, k \in DOMAIN ud.keys : ud.keys[i].name = ud.keys[k].name => i = k

\* C4: after any sequence of add, delete, rename and setActive on any chats
\* every chat has at most one active name, and an active name that is set
\* is a key of the chat's credential set.
C4_ActiveIsAKey ==
    /\ \A o \in DOMAIN dicts : \A c \in DOMAIN dicts[o] :
          WellFormed(dicts[o][c])
    /\ \A c \in DOMAIN DATA_FILE.doc : WellFormed(DATA_FILE.doc[c])

\* C4 witness: the active key of a chat was renamed to "c" after it had
\* been added and another key had been deleted or activated
C4_Witness ==
    /\ reply.kind = "renamed"
    /\ nops >= 3
    /\ \E c \in DOMAIN dicts[_user_data] :
          dicts[_user_data][c].active = Some("c")

\* C5: a key added to a chat with no key becomes the active one; deleting
\* the active key makes the first remaining name in iteration order active,
\* or clears the pointer when no key remains; deleting another key leaves
\* the pointer as it was.
C5_ActivationRules ==
    [][\A c \in Chats :
        LET before == stored(dicts, _user_data, c)
            after  == stored(dicts', _user_data, c)
        IN  /\ \A n \in Names, text \in RawTexts :
                  (receive_key(c, Some(n), text) /\ before.keys = << >>
                        /\ reply'.kind = "key_saved") =>
                     after.active = Some(n)
            /\ \A name \in Names :
                  (button_handler(c, "del", name)
                        /\ reply'.kind = "api_menu") =>
                     LET rest == SelectSeq(before.keys,
                                           LAMBDA e : e.name # name)
                     IN  /\ after.keys = rest
                         /\ after.active =
                              IF before.active # Some(name) THEN before.active
                              ELSE IF Len(rest) = 0 THEN None
                              ELSE Some(rest[1].name)]_vars

\* C5 witness: the first call deleted the active key "a" of the loaded
\* document and "b", the first name that remained, became active
C5_Witness ==
    /\ nops = 1
    /\ reply.kind = "api_menu"
    /\ 1 \in DOMAIN dicts[_user_data]
    /\ dicts[_user_data][1].keys = << [name |-> "b", key |-> "s2"] >>
    /\ dicts[_user_data][1].active = Some("b")

\* C6: a rename whose new name is already a key of the chat ends with the
\* conflict outcome and leaves the whole store unchanged.
C6_RenameConflict ==
    [][\A c \in Chats, old \in Names, text \in RenameTexts :
        (receive_rename(c, Some(old), text)
            /\ has_key(stored(dicts, _user_data, c).keys, strip(text))) =>
              /\ reply'.kind = "name_exists"
              /\ UNCHANGED <<dicts, DATA_FILE>>]_vars

\* setActive and delete of a name that is no key of the chat answer
\* "not found" (the call returned false) and leave the chat's keys, its
\* active pointer and the document unchanged
AbsentSetDelete(c) ==
    \A action \in {"set", "del"}, name \in Names :
        (button_handler(c, action, name)
            /\ ~has_key(stored(dicts, _user_data, c).keys, name)) =>
          /\ reply'.kind = "key_not_found"
          /\ stored(dicts', _user_data, c) = stored(dicts, _user_data, c)
          /\ DATA_FILE' = DATA_FILE

----------------------------------------------------------------------------
(* Isolation of chats *)

\* what the program holds for chat b: its registry entry with the cancel
\* flag, its settings record, its credential set and active pointer
ChatState(aj, us, ds, ref, b) ==
    [ entry    |-> IF b \in DOMAIN aj THEN <<aj[b]>> ELSE << >>,
      settings |-> IF b \in DOMAIN us THEN <<us[b]>> ELSE << >>,
      creds    |-> stored(ds, ref, b) ]

\* a step for chat a: a command or upload of the chat, or a step of one of
\* its jobs
StepFor(a) ==
    \/ \E f \in ArchiveNames : handle_file(a, f, 1, FALSE)
    \/ \E j \in JobIds : jobs[j].chat = a /\ ArchiveStep(j)
    \/ cancel(a)
    \/ set_ocr_mode(a, << STR_ONLINE >>)
    \/ receive_key(a, Some("a"), "s1")

\* C15: a command, an upload, a job step or a job failure for chat A leaves
\* the registry entry and cancel flag, the settings record, the credential
\* set and the active pointer of every other chat B as they were.
C15_ChatIsolation ==
    [][\A a \in Chats : StepFor(a) =>
        \A b \in Chats \ {a} :
            ChatState(active_jobs', user_settings', dicts', _user_data', b)
              = ChatState(active_jobs, user_settings, dicts, _user_data, b)]_vars

\* C15 witness: a job of chat 1 has failed while chat 2 has a job with its
\* cancel flag set, a settings record and an active key
C15_Witness ==
    /\ \E j \in JobIds : jobs[j].chat = 1 /\ jobs[j].pc = "except"
    /\ \E j \in JobIds : jobs[j].chat = 2 /\ Alive(j)
    /\ 2 \in DOMAIN active_jobs /\ active_jobs[2].cancel
    /\ 2 \in DOMAIN user_settings
    /\ stored(dicts, _user_data, 2).active = Some("a")

----------------------------------------------------------------------------
(* A second upload while a task is in its page loop *)

\* the task stopped at a page check because the flag was set
StoppedByCancel(jb) == jb.pc = "return" /\ LastSent(jb).kind = "cancelled"

\* C16 as stated: once an upload has replaced the registry entry of a task
\* that is in its page loop, no /cancel stops that task (the replacement
\* clears the flag, so a stop after it is the work of a later /cancel).
C16_OrphanedFlag ==
    \A j \in JobIds : jobs[j].superseded => ~StoppedByCancel(jobs[j])

\* the task is suspended between two pages with a page left to do
BetweenPages(jb) ==
    jb.kind = "archive" /\ jb.pc = "loop" /\ jb.idx <= Len(jb.pages)

\* C16 amended: the upload leaves the earlier task as it is and clears the
\* flag; the task polls the registry by chat id, so a /cancel after the
\* replacement sets the flag the task reads, and at its next page check the
\* task stops exactly when the chat's current entry has the flag set.
C16_SharedFlag ==
    [][\A j \in JobIds :
        LET jb == jobs[j] IN
        /\ (~jb.superseded /\ jobs'[j].superseded) =>
              /\ jobs'[j] = [jb EXCEPT !.superseded = TRUE]
              /\ active_jobs'[jb.chat] = [cancel |-> FALSE]
        /\ (jb.superseded /\ BetweenPages(jb) /\ cancel(jb.chat)
              /\ jb.chat \in DOMAIN active_jobs) =>
              /\ active_jobs'[jb.chat].cancel
              /\ jobs'[j].cancel_ack
        /\ (jb.superseded /\ BetweenPages(jb) /\ process_archive_page(j)) =>
              (StoppedByCancel(jobs'[j])
                 <=> (jb.chat \in DOMAIN active_jobs
                        /\ active_jobs[jb.chat].cancel))
       ]_vars

\* C16 witness: a task whose entry was replaced while it was in its page
\* loop has stopped at a page check after a /cancel, next to the later task
C16_Witness ==
    \E j, k \in JobIds :
        /\ j < k
        /\ jobs[j].superseded /\ StoppedByCancel(jobs[j])
        /\ jobs[k].chat = jobs[j].chat /\ Alive(k)

----------------------------------------------------------------------------
(* When a task sees the flag *)

\* C17: a /cancel handled while the OCR call of page k is awaited does not
\* end that call: once the call is back page k is in the transcript (and
\* reported when k <= 2) and no call is made for page k+1; a /cancel handled
\* before the page loop (while the archive is unpacked and scanned) stops the
\* task before any OCR call.
C17_PageBoundaries ==
    \A j \in JobIds :
        LET jb == jobs[j]
            k  == jb.cancel_in_call
        IN  jb.kind = "archive" =>
              /\ (k >= 1 /\ jb.pc # "ocr") =>
                    /\ Len(jb.all_text) = k
                    /\ Len(jb.ocr_calls) = k
                    /\ Len(Sent(jb, "progress")) = (IF k < 2 THEN k ELSE 2)
              /\ jb.cancel_early =>
                    /\ Len(jb.ocr_calls) = 0
                    /\ Len(Sent(jb, "progress")) = 0
                    /\ Len(Sent(jb, "document")) = 0

----------------------------------------------------------------------------
(* The persisted document *)

\* the step was a call of add, setActive, delete or rename that succeeded
MutatingCallDone ==
    nops' = nops + 1 /\ reply'.kind \in {"key_saved", "api_menu", "renamed"}

\* C18: when a mutating credential call (add, setActive, delete, rename) has
\* succeeded, the persisted document exists and is the whole in-memory store
\* as written by the save, and loading it gives the store again: the same
\* chat ids, the same names and keys in the same order, the same active
\* pointers.
C18_SavedEqualsStore ==
    [][MutatingCallDone =>
        /\ DATA_FILE'.exists
        /\ DATA_FILE'.doc = json_dumps(dicts'[_user_data'])
        /\ json_loads_int(DATA_FILE'.doc) = dicts'[_user_data']]_vars

\* C18 witness: a key of chat 2 was deleted in a run that began with a
\* saved document of chat 1, and the document holds both chats
C18_Witness ==
    /\ reply.kind = "api_menu"
    /\ _user_data = "d1"
    /\ DOMAIN DATA_FILE.doc = { <<49>>, <<50>> }
    /\ DATA_FILE.doc[<<50>>].keys = << >>
    /\ json_loads_int(DATA_FILE.doc) = dicts[_user_data]

----------------------------------------------------------------------------
(* A failure while unpacking *)

\* the task of an archive that cannot be unpacked is past the unpacking
UnpackFailed(jb) ==
    /\ jb.kind = "archive" /\ jb.corrupt
    /\ jb.pc \notin {"idle", "accepted", "created", "begun", "except", "done"}

\* C19: a failure while unpacking ends the processing: the error is reported
\* once, as the last message; no file is scanned, no OCR call is made, no
\* progress and no document is sent; the task unpacks nothing again, and its
\* only further step is the cleanup.
C19_UnpackFailureTerminal ==
    /\ [](\A j \in JobIds :
            LET jb == jobs[j] IN
            UnpackFailed(jb) =>
              /\ jb.pc = "return" /\ jb.extracted = "failed"
              /\ Len(Sent(jb, "extract_error")) = 1
              /\ LastSent(jb).kind = "extract_error"
              /\ jb.pages = << >> /\ jb.all_text = << >>
              /\ jb.ocr_calls = << >>
              /\ \A i \in DOMAIN jb.out :
                    jb.out[i].kind \in {"received", "using", "extract_error"})
    /\ [][\A j \in JobIds :
            (UnpackFailed(jobs[j]) /\ jobs'[j] # jobs[j]) =>
              \/ /\ task_finally(j)
                 /\ jobs'[j].pc = "done" /\ jobs'[j].scratch = "removed"
                 /\ jobs'[j].cleanups = 1
              \/ /\ cancel(jobs[j].chat)
                 /\ jobs'[j] = [jobs[j] EXCEPT !.cancel_ack = TRUE]]_vars

\* C19 witness: the task of an archive that could not be unpacked has
\* reported the error and has only its cleanup left
C19_Witness ==
    \E j \in JobIds :
        /\ jobs[j].pc = "return" /\ jobs[j].extracted = "failed"
        /\ LastSent(jobs[j]).kind = "extract_error"
        /\ jobs[j].scratch = "exists"
        /\ jobs[j].pc \in finally_from /\ running = 0

----------------------------------------------------------------------------
(* A page whose OCR fails *)

\* the OCR calls of a task that failed inside the backend
FailedCalls(jb) == {i \in DOMAIN jb.ocr_calls : jb.ocr_calls[i].outcome = "error"}

\* C20: the OCR failure of a page does not end an archive job: the call
\* returns an empty string or a placeholder, the page gets its entry, and
\* the task, when no /cancel came for it, goes on to read every remaining
\* page and ends with the document of all n pages.
C20_PageFailureTolerated ==
    \A j \in JobIds :
        LET jb == jobs[j]
            P  == sorted(scan_images(jb.files))
            n  == Len(P)
        IN  (jb.kind = "archive" /\ FailedCalls(jb) # {} /\ ~jb.cancel_ack) =>
              /\ jb.pc \in {"loop", "ocr", "return"}
              /\ \A i \in FailedCalls(jb) :
                    i <= Len(jb.all_text) =>
                       /\ jb.all_text[i].name = basename(P[i])
                       /\ jb.all_text[i].text \in {"", "online_ocr_error"}
              /\ jb.pc = "return" =>
                    /\ Len(jb.ocr_calls) = n
                    /\ LastSent(jb).kind = "document"
                    /\ Len(Sent(jb, "document")) = 1
                    /\ Len(LastSent(jb).doc) = n
                    /\ \A i \in 1..n :
                          LastSent(jb).doc[i].name = basename(P[i])

\* C20 witness: the OCR of the second of three pages failed, and the task
\* has sent the document with three entries
C20_Witness ==
    \E j \in JobIds :
        /\ jobs[j].kind = "archive" /\ jobs[j].pc = "return"
        /\ ~jobs[j].cancel_ack
        /\ Len(jobs[j].ocr_calls) = 3
        /\ FailedCalls(jobs[j]) = {2}
        /\ LastSent(jobs[j]).kind = "document"
        /\ Len(LastSent(jobs[j]).doc) = 3
        /\ LastSent(jobs[j]).doc[2].text = ""

----------------------------------------------------------------------------
(* The delivery of a photo's text *)

\* C21: an image job that has ended has delivered its text once: as a
\* document when the text is longer than 3500 characters, inline otherwise
\* (a text of exactly 3500 characters inline), and never in both ways.
C21_ImageDelivery ==
    \A j \in JobIds :
        LET jb     == jobs[j]
            docs   == Sent(jb, "image_document")
            inline == Sent(jb, "inline")
        IN  (jb.kind = "image" /\ Finished(jb)) =>
              /\ Len(docs) + Len(inline) = 1
              /\ \A i \in DOMAIN docs : TextLen(docs[i].text) > INLINE_LIMIT
              /\ \A i \in DOMAIN inline : TextLen(inline[i].text) <= INLINE_LIMIT

----------------------------------------------------------------------------
(* The dispatch of a document by its name *)

\* the step is the document handler's, for chat c and a document named f
Uploaded(c, f) ==
    \/ handle_file(c, f, 1, FALSE)
    \/ \E x \in GoodTxt : handle_file_txt(c, f, x)

\* C22: a document is dispatched by the extension of its name, whatever its
\* case: an archive's name registers the chat and accepts an archive job; a
\* .txt name starts the translation of the text and registers nothing; any
\* other name gets the usage reply, and the registry, the settings, the
\* credentials, the jobs and the translator are as before and the scratch
\* directory is removed.
C22_DispatchByExtension ==
    [][\A c \in JobChats :
        /\ \A f \in MixedArchiveNames : Uploaded(c, f) =>
              /\ c \in DOMAIN active_jobs' /\ ~active_jobs'[c].cancel
              /\ \E j \in JobIds :
                    /\ jobs[j].pc = "idle"
                    /\ jobs'[j].pc = "accepted" /\ jobs'[j].kind = "archive"
                    /\ jobs'[j].chat = c
              /\ txt' = txt
        /\ \A f \in TxtNames : Uploaded(c, f) =>
              /\ active_jobs' = active_jobs /\ jobs' = jobs
              /\ txt'.pc = "reading" /\ txt'.chat = c
        /\ \A f \in OtherNames : Uploaded(c, f) =>
              /\ reply' = Reply("unsupported_file", [scratch |-> "removed"])
              /\ active_jobs' = active_jobs /\ user_settings' = user_settings
              /\ dicts' = dicts /\ DATA_FILE' = DATA_FILE
              /\ jobs' = jobs /\ txt' = txt /\ _client_cache' = _client_cache
       ]_vars

\* C22 witness: a document named "p.pdf" was refused while the chat has a
\* job, a settings record and a key
C22_Witness ==
    /\ reply.kind = "unsupported_file"
    /\ 1 \in DOMAIN active_jobs /\ 1 \in DOMAIN user_settings
    /\ stored(dicts, _user_data, 1).active = Some("a")
    /\ \E j \in JobIds : jobs[j].chat = 1 /\ jobs[j].pc = "loop"

----------------------------------------------------------------------------
(* The cache of the model listing *)

\* the step is a fetch of the models for chat c with this listing
FetchStep(c, listing) ==
    \/ model_command(c, listing)
    \/ \E m \in ModelNames : button_callback(c, m, listing)

\* what a fetch has to do when the window that began at time t is open, and
\* when there is no window or it is over
WindowRule(c, listing, is_open) ==
    LET with_key == ~no_api_key(get_active_key(dicts[_user_data], c)) IN
    IF is_open
    THEN /\ reply'.arg.hit /\ ~reply'.arg.listed
         /\ reply'.arg.models = model_cache[c].models
    ELSE /\ ~reply'.arg.hit
         /\ reply'.arg.listed = with_key
         /\ (~with_key \/ listing_fails(listing)) => reply'.arg.models = FALLBACK

\* C23 as stated: the window of a chat is counted from the chat's previous
\* fetch: a fetch less than 300 seconds after it is served from the cache
\* without a listing call, a first fetch or one 300 seconds or more after it
\* lists with the active key and gives the fallback on every failure.
C23_WindowFromPreviousFetch ==
    [][\A c \in Chats, listing \in Listings :
        FetchStep(c, listing) =>
           WindowRule(c, listing,
               c \in DOMAIN fetched /\ now - fetched[c] < CACHE_WINDOW)]_vars

\* C23 amended: the window is counted from the fetch that stored the cached
\* mapping (a fetch served from the cache does not begin a new window).
C23_WindowFromCachedEntry ==
    [][\A c \in Chats, listing \in Listings :
        FetchStep(c, listing) =>
           WindowRule(c, listing,
               c \in DOMAIN model_cache
                 /\ now - model_cache[c].timestamp < CACHE_WINDOW)]_vars

\* C23 witness: chat 1 has an active key; its fetch 299 seconds after the
\* fetch that listed the models and stored the fallback was served from the
\* cache
C23_Witness ==
    /\ reply.kind = "model_menu"
    /\ reply.arg.hit /\ ~reply.arg.listed /\ reply.arg.models = FALLBACK
    /\ ~no_api_key(get_active_key(dicts[_user_data], 1))
    /\ 1 \in DOMAIN fetched /\ fetched[1] = now
    /\ 1 \in DOMAIN model_cache /\ model_cache[1].timestamp = now - 299

----------------------------------------------------------------------------
(* The order of the pages *)

\* the images an upload may contain in ascending order of their paths, as
\* Python compares strings: "A.jpg" < "a/z.PNG" < "b.png" < "c.gif"
AscendingImages ==
    << <<65, 46, 106, 112, 103>>,
       <<97, 47, 122, 46, 80, 78, 71>>,
       <<98, 46, 112, 110, 103>>,
       <<99, 46, 103, 105, 102>> >>

\* C24: the OCR calls of an archive job are made one after the other in
\* ascending order of the full path: the i-th call is for the i-th image in
\* that order, every call but the last has returned and left its page in the
\* transcript, only the last can be awaited, and two jobs over the same
\* files make their calls in the same order.
C24_SequentialAscending ==
    \A j \in JobIds :
        LET jb    == jobs[j]
            calls == jb.ocr_calls
            P     == SelectSeq(AscendingImages, LAMBDA p : p \in jb.files)
        IN  jb.kind = "archive" =>
              /\ Len(calls) <= Len(P)
              /\ \A i \in DOMAIN calls :
                    /\ calls[i].path = P[i]
                    /\ i < Len(calls) => calls[i].outcome # "awaited"
              /\ Len(jb.all_text) \in {Len(calls) - 1, Len(calls)}
              /\ Len(jb.all_text) = Len(calls) - 1 =>
                    /\ jb.pc = "ocr"
                    /\ calls[Len(calls)].outcome = "awaited"
              /\ \A k \in JobIds :
                    (jobs[k].kind = "archive" /\ jobs[k].files = jb.files) =>
                       \A i \in DOMAIN calls \cap DOMAIN jobs[k].ocr_calls :
                          jobs[k].ocr_calls[i].path = calls[i].path

\* C24 witness: a job has read the three pages "A.jpg", "a/z.PNG", "b.png"
\* that were uploaded in another order, and a second job over the same
\* files has read the first two
C24_Witness ==
    \E j, k \in JobIds :
        /\ j # k
        /\ jobs[j].kind = "archive" /\ jobs[k].kind = "archive"
        /\ jobs[j].files = jobs[k].files
        /\ Len(jobs[j].ocr_calls) = 3
        /\ jobs[j].ocr_calls[2].path = <<97, 47, 122, 46, 80, 78, 71>>
        /\ Len(jobs[k].ocr_calls) = 2

----------------------------------------------------------------------------
(* A rename that succeeds *)

\* C25: a rename that succeeds removes the old name, maps the new name to
\* the key the old name had, leaves the key of every other name as it was,
\* makes the new name active exactly when the old name was active, and so
\* leaves the chat's active key as it was.
C25_RenameKeepsSecret ==
    [][\A c \in Chats, old \in Names, text \in RenameTexts :
        (receive_rename(c, Some(old), text) /\ reply'.kind = "renamed") =>
           LET before   == stored(dicts, _user_data, c)
               after    == stored(dicts', _user_data, c)
               new_name == strip(text)
           IN  /\ has_key(before.keys, old)
               /\ ~has_key(after.keys, old)
               /\ key_of(after.keys, new_name) = key_of(before.keys, old)
               /\ \A n \in Names \ {old, new_name} :
                     key_of(after.keys, n) = key_of(before.keys, n)
               /\ after.active = IF before.active = Some(old)
                                 THEN Some(new_name) ELSE before.active
               /\ get_active_key(dicts'[_user_data], c)
                    = get_active_key(dicts[_user_data], c)]_vars

\* C25 witness: of the keys a (active) and b of chat 1, a was renamed to c
C25_Witness ==
    /\ reply.kind = "renamed"
    /\ 1 \in DOMAIN dicts[_user_data]
    /\ dicts[_user_data][1].keys =
          << [name |-> "b", key |-> "s2"], [name |-> "c", key |-> "s1"] >>
    /\ dicts[_user_data][1].active = Some("c")

----------------------------------------------------------------------------
(* Adding a key *)

\* C26: an add whose key is empty after stripping fails and leaves the store
\* and the document as they were, with no record made for the chat; an add
\* under a name the chat already has replaces the key of that name, keeps
\* the other names and their keys, and keeps the active pointer when one is
\* set.
C26_AddValidation ==
    [][\A c \in Chats, n \in Names, text \in RawTexts :
        receive_key(c, Some(n), text) =>
           LET before == stored(dicts, _user_data, c)
               after  == stored(dicts', _user_data, c)
               call   == add_user_key(dicts[_user_data], c, n, text)
           IN  /\ strip(text) = "" =>
                    /\ ~call.ret /\ call.d = dicts[_user_data]
                    /\ reply'.kind = "invalid_key"
                    /\ dicts' = dicts /\ DATA_FILE' = DATA_FILE
               /\ (strip(text) # "" /\ has_key(before.keys, n)) =>
                    /\ reply'.kind = "key_saved"
                    /\ key_of(after.keys, n) = Some(strip(text))
                    /\ Len(after.keys) = Len(before.keys)
                    /\ \A m \in Names \ {n} :
                          key_of(after.keys, m) = key_of(before.keys, m)
                    /\ before.active # None => after.active = before.active
      ]_vars

\* C26 witness: the first call added "b" again, with another key, to the
\* loaded keys a (active) and b of chat 1
C26_Witness ==
    /\ nops = 1
    /\ reply.kind = "key_saved"
    /\ 1 \in DOMAIN dicts[_user_data]
    /\ dicts[_user_data][1].keys =
          << [name |-> "a", key |-> "s1"], [name |-> "b", key |-> "s1"] >>
    /\ dicts[_user_data][1].active = Some("a")

----------------------------------------------------------------------------
(* What a job sends after /cancel *)

\* /cancel was acknowledged for the job's chat while the job had not yet
\* delivered or ended: before its page loop, between two pages, or during
\* an OCR call
CancelledInTime(jb) ==
    jb.cancel_early \/ jb.cancel_at >= 0 \/ jb.cancel_in_call >= 1

\* the final results a job has delivered: the document of an archive, the
\* text of a photo inline or as a document
FinalResults(jb) ==
    Len(Sent(jb, "document")) + Len(Sent(jb, "inline"))
        + Len(Sent(jb, "image_document"))

\* C27: a job for whose chat /cancel was acknowledged while it ran delivers
\* no final result afterwards, whatever page it was on and whatever was
\* uploaded later.
C27_NoResultAfterCancel ==
    \A j \in JobIds : CancelledInTime(jobs[j]) => FinalResults(jobs[j]) = 0

----------------------------------------------------------------------------
(* The registry entry of a running job *)

\* C28: while a job task of a chat is running (its task was created and it
\* has not run its own cleanup) the job registry has an entry for that chat,
\* so /cancel reaches the job; the cleanup of one job does not take away the
\* entry of a later job of the same chat.
C28_RunningJobRegistered ==
    \A j \in JobIds : Alive(j) => jobs[j].chat \in DOMAIN active_jobs

----------------------------------------------------------------------------
(* The active pointer and the credential set *)

\* C29: in every reachable state of the credential store the active pointer
\* of a chat is unset exactly when the chat has no credential; add,
\* setActive, delete and rename never leave a non-empty set without an
\* active credential.
C29_ActiveUnsetIffEmpty ==
    /\ \A o \in DOMAIN dicts : \A c \in DOMAIN dicts[o] :
          (dicts[o][c].active = None) <=> (dicts[o][c].keys = << >>)
    /\ \A c \in DOMAIN DATA_FILE.doc :
          (DATA_FILE.doc[c].active = None) <=> (DATA_FILE.doc[c].keys = << >>)

\* C29 witness: the last key of chat 2 was deleted, which left its record
\* with no key and no active name, while chat 1 holds keys and an active
\* name
C29_Witness ==
    /\ reply.kind = "api_menu"
    /\ 2 \in DOMAIN dicts[_user_data]
    /\ dicts[_user_data][2] = [keys |-> << >>, active |-> None]
    /\ 1 \in DOMAIN dicts[_user_data]
    /\ dicts[_user_data][1].keys # << >>
    /\ dicts[_user_data][1].active # None

----------------------------------------------------------------------------
(* An archive whose pages hold no text *)

\* an archive job that ran through all its pages, at least one, with no
\* /cancel acknowledged for it, and whose every OCR call returned ""
AllPagesBlank(jb) ==
    /\ jb.kind = "archive"
    /\ jb.pc = "return"
    /\ ~jb.cancel_ack
    /\ Len(jb.pages) >= 1
    /\ Len(jb.all_text) = Len(jb.pages)
    /\ \A i \in DOMAIN jb.all_text : jb.all_text[i].text = ""

\* C30: an uncancelled archive job with at least one image whose every page
\* gives the empty string reports "no text detected" and delivers no
\* document.
C30_BlankArchiveReportsNoText ==
    \A j \in JobIds :
        AllPagesBlank(jobs[j]) =>
            /\ LastSent(jobs[j]).kind = "no_text"
            /\ Len(Sent(jobs[j], "document")) = 0

----------------------------------------------------------------------------
(* The credential view of the menu handlers *)

\* C31: the dict that the /api menu, the key-info and the rename handlers
\* read as user_settings is the dict that add, setActive, delete, getActive
\* and _save work on, also after a saved document was loaded at startup:
\* every credential of the store is a credential of the view, and the
\* active name is the same in both.
C31_ViewIsTheStore ==
    /\ users_user_settings = _user_data
    /\ \A c \in DOMAIN dicts[_user_data] :
          /\ key_names(dicts[_user_data][c].keys) =
                key_names(view_keys(dicts, c))
          /\ dicts[_user_data][c].active =
                stored(dicts, users_user_settings, c).active

----------------------------------------------------------------------------
(* The handler of a text message *)

\* the one thing chat c is asked to send: a new name after Rename, a style
\* guide after /style, a key after Add Key, or nothing
Awaited(c) ==
    {h \in {"receive_rename", "receive_style_guide", "receive_key"} :
        \/ h = "receive_rename" /\ user_data[c].rename_key # None
        \/ h = "receive_style_guide" /\ conversations[c] = WAITING_FOR_STYLE
        \/ h = "receive_key" /\ user_data[c].pending_key_id # None}

\* C32: a text message that is no command is handled by the handler whose
\* pending state is set for the user: receive_rename after Rename was
\* pressed, receive_style_guide after /style, and receive_key only when an
\* added key is awaited.
C32_TextGoesToPendingHandler ==
    [][\A c \in Chats, text \in SentTexts, outcome \in GenOutcomes :
          text_message(c, text, outcome) =>
             /\ Awaited(c) = {"receive_rename"} =>
                   handled_by' = "receive_rename"
             /\ Awaited(c) = {"receive_style_guide"} =>
                   handled_by' = "receive_style_guide"
             /\ handled_by' = "receive_key" =>
                   user_data[c].pending_key_id # None]_vars

====
